---- MODULE Spec2Model ----
(***************************************************************************)
(* Employee store of the HR application (src/src/store/employees.store.js) *)
(* with the persist middleware that writes the {employees} slice through   *)
(* the IndexedDB key-value adapter, and the store's subscribers.           *)
(*                                                                         *)
(* Strings whose characters matter (emails) are sequences of one-character *)
(* strings, so that trim and toLowerCase are computed, not assumed.        *)
(***************************************************************************)
EXTENDS Integers, Sequences, FiniteSets, TLC

\* ------------------------------------------------------------------ bounds
\* Writes of the store key that may be in flight (issued, not yet durable).
MaxPending == 2

\* ------------------------------------------------------------- input sets
Ids == {"i1", "i2"}
Names == {"x", "y"}
Callbacks == {"c1", "c2"}
Undefined == "undefined"
RawEmails == { <<"a">>, <<" ", "A", " ">>, <<"B">>, <<" ">> }

\* persist options of the store
NAME == "hr/employees"
VERSION == 1
Keys == {NAME}

\* --------------------------------------------------------- string helpers
IsSpace(c) == c = " "

\* The letters that have a lower-case form, of those the model uses.
LowerCaseOf ==
  "A" :> "a" @@ "B" :> "b" @@ "C" :> "c" @@ "D" :> "d" @@ "E" :> "e"
    @@ "F" :> "f" @@ "G" :> "g" @@ "H" :> "h" @@ "I" :> "i" @@ "J" :> "j"
    @@ "K" :> "k" @@ "L" :> "l" @@ "M" :> "m" @@ "N" :> "n" @@ "O" :> "o"
    @@ "P" :> "p" @@ "Q" :> "q" @@ "R" :> "r" @@ "S" :> "s" @@ "T" :> "t"
    @@ "U" :> "u" @@ "V" :> "v" @@ "W" :> "w" @@ "X" :> "x" @@ "Y" :> "y"
    @@ "Z" :> "z"

toLowerChar(c) == IF c \in DOMAIN LowerCaseOf THEN LowerCaseOf[c] ELSE c

toLowerCase(s) == [i \in 1..Len(s) |-> toLowerChar(s[i])]

RECURSIVE trimStart(_)
trimStart(s) ==
  IF s # <<>> /\ IsSpace(Head(s)) THEN trimStart(Tail(s)) ELSE s

RECURSIVE trimEnd(_)
trimEnd(s) ==
  IF s # <<>> /\ IsSpace(s[Len(s)])
  THEN trimEnd(SubSeq(s, 1, Len(s) - 1))
  ELSE s

trim(s) == trimEnd(trimStart(s))

\* ------------------------------------------------------------------ state
VARIABLES
  employees,  \* get().employees: the in-memory collection, in insertion order
  listeners,  \* the callbacks registered with employeesStore.subscribe
  seen,       \* per callback: what all() returned while it was notified by
              \* the last operation, or NotCalled
  lastOp,     \* the last store call: its argument, target id and outcome
  awaiting,   \* idbStorage.setItem calls suspended at `await db()`, in order
  txq,        \* put transactions queued in IndexedDB, in creation order
  kv,         \* the object store 'kv' of the database: key -> <<value>>,
              \* or <<>> when the key holds nothing
  kvAge,      \* commits made since the commit whose snapshot is in kv
  recent,     \* the committed collections from the newest back to the one
              \* whose snapshot is in kv (the initial one while kv is empty);
              \* a write that fails restarts both at its own commit
  dbPromise,  \* the cached promise of db(): "pending", "fulfilled", "rejected"
  hydration,  \* persist's hydrate(): "awaiting" (getItem suspended at
              \* `await db()`), "queued" (its get is queued), "done"
  seed,       \* seedFromJSONIfEmpty called by AppRoot.firstUpdated: position,
              \* what it observed and did
  got,        \* the result of the last completed idbStorage.getItem call
  acked,      \* per key: the value of the last completed setItem, or <<>>
              \* after a completed removeItem or when never set
  faults,     \* what has failed so far: "open" (openDB), "write" (a put)
  clock,      \* what `new Date()` yields: the local calendar date and the
              \* hours the local zone is ahead of UTC
  dto,        \* the argument of the last validateEmployee call
  errs,       \* what that call returned
  list,       \* the employee list component: q, filters, page, view, page
              \* size, selection and the _filtered of its last render
  pager,      \* an x-pagination element: its properties and the last
              \* page-change event it dispatched
  form,       \* the employee form: employeeId, the fields, errors and the
              \* position of its _submit
  search,     \* a search-input element: value, timer, the time and the
              \* search-change events dispatched
  css,        \* css.js: the cache, the adoptCss calls in flight, the
              \* fetches made and what each root has adopted
  header      \* the hr-header element: connected, position of firstUpdated,
              \* its listeners on window

storeVars ==
  <<employees, listeners, seen, lastOp, awaiting, txq, kv, kvAge, recent>>
bootVars == <<dbPromise, hydration, seed>>
adapterVars == <<got, acked, faults>>
validationVars == <<clock, dto, errs>>
listVars == <<list>>
uiVars == <<pager, form, search, css, header>>
otherVars == <<bootVars, adapterVars, validationVars, listVars, uiVars>>

vars == <<storeVars, bootVars, adapterVars, validationVars, listVars, uiVars>>

NotCalled == << [id |-> "not-called", email |-> <<>>, name |-> ""] >>
NoError == [message |-> "", cause |-> [field |-> ""]]
NoArg == [id |-> Undefined, email |-> <<>>, name |-> ""]

\* ------------------------------------------------------------ store reads
all(emps) == emps

findIndex(emps, id) ==
  IF \E i \in 1..Len(emps) : emps[i].id = id
  THEN CHOOSE i \in 1..Len(emps) :
         emps[i].id = id /\ \A j \in 1..(i - 1) : emps[j].id # id
  ELSE 0

null == [id |-> "null", email |-> <<>>, name |-> ""]

byId(emps, id) ==
  IF findIndex(emps, id) = 0 THEN null ELSE emps[findIndex(emps, id)]

\* ---------------------------------------------------------- store writes
RECURSIVE filter(_, _)
filter(emps, id) ==
  IF emps = <<>> THEN <<>>
  ELSE IF Head(emps).id # id
       THEN <<Head(emps)>> \o filter(Tail(emps), id)
       ELSE filter(Tail(emps), id)

\* remove written with findIndex and splice: an absent id gives index -1,
\* and splice(-1, 1) drops the last record.
remove_splice(emps, id) ==
  LET idx == findIndex(emps, id)
      at == IF idx = 0 THEN Len(emps) ELSE idx
  IN SubSeq(emps, 1, at - 1) \o SubSeq(emps, at + 1, Len(emps))

remove(emps, id) == filter(emps, id)

\* clearAll that drops one record per call.
clearAll_shift(emps) == IF emps = <<>> THEN <<>> ELSE Tail(emps)

clearAll(emps) == <<>>

\* upsert with one step of the code changed, v naming the change.
upsertWith(emps, e, gid, v) ==
  LET id == IF e.id # Undefined THEN e.id ELSE gid
      email == IF v = "noTrim" THEN toLowerCase(e.email)
               ELSE toLowerCase(trim(e.email))
      dupe == \E i \in 1..Len(emps) :
                /\ emps[i].id # id
                /\ IF v = "rawCompare" THEN emps[i].email = e.email
                   ELSE toLowerCase(emps[i].email) = email
      idx == IF v = "alwaysAppend" THEN 0 ELSE findIndex(emps, id)
      rec == [id |-> id, email |-> email, name |-> e.name]
  IN IF dupe
     THEN [employees |-> IF v = "pushThenThrow" THEN Append(emps, rec) ELSE emps,
           set |-> FALSE, threw |-> TRUE,
           error |-> [message |-> "UNIQUE_EMAIL", cause |-> [field |-> "email"]],
           id |-> id, ret |-> Undefined]
     ELSE [employees |-> IF idx = 0 THEN Append(emps, rec)
                         ELSE IF v = "moveToEnd" THEN Append(filter(emps, id), rec)
                         ELSE [emps EXCEPT ![idx] = rec],
           set |-> TRUE, threw |-> FALSE, error |-> NoError,
           id |-> id, ret |-> id]

upsert_rawCompare(emps, e, gid) == upsertWith(emps, e, gid, "rawCompare")
upsert_pushThenThrow(emps, e, gid) == upsertWith(emps, e, gid, "pushThenThrow")
upsert_noTrim(emps, e, gid) == upsertWith(emps, e, gid, "noTrim")
upsert_moveToEnd(emps, e, gid) == upsertWith(emps, e, gid, "moveToEnd")
upsert_alwaysAppend(emps, e, gid) == upsertWith(emps, e, gid, "alwaysAppend")

\* upsert(e) on the collection emps, with gid what genId() would return.
\* The result says what the call did: the collection afterwards, whether
\* set() was called, whether it threw (and what), the value returned.
upsert(emps, e, gid) ==
  LET next == emps
      id == IF e.id # Undefined THEN e.id ELSE gid
      email == toLowerCase(trim(e.email))
      dupe == \E i \in 1..Len(next) :
                toLowerCase(next[i].email) = email /\ next[i].id # id
      idx == findIndex(next, id)
      rec == [id |-> id, email |-> email, name |-> e.name]
  IN IF dupe
     THEN [employees |-> emps, set |-> FALSE, threw |-> TRUE,
           error |-> [message |-> "UNIQUE_EMAIL", cause |-> [field |-> "email"]],
           id |-> id, ret |-> Undefined]
     ELSE [employees |-> IF idx = 0 THEN Append(next, rec)
                         ELSE [next EXCEPT ![idx] = rec],
           set |-> TRUE, threw |-> FALSE, error |-> NoError,
           id |-> id, ret |-> id]

\* ------------------------------------------------ commit: set(), persist
\* setState that calls the listeners before the swap.
setState_notifyFirst(prev, next, ls) ==
  [state |-> next,
   seen |-> [c \in Callbacks |-> IF c \in ls THEN all(prev) ELSE NotCalled]]

\* zustand's setState as used by the store: swap the state, then call every
\* listener; a listener that reads all() gets the state current at that time.
setState(prev, next, ls) ==
  [state |-> next,
   seen |-> [c \in Callbacks |-> IF c \in ls THEN all(next) ELSE NotCalled]]

partialize(emps) == [employees |-> emps]

\* persist's setItem(): the storage value of the state, issued under NAME.
\* age counts the commits made after this one.
setItem(emps) ==
  [key |-> NAME, value |-> [state |-> partialize(emps), version |-> VERSION],
   age |-> 0]

Older(q) == [i \in 1..Len(q) |-> [q[i] EXCEPT !.age = @ + 1]]

InFlight == Len(awaiting) + Len(txq)

Newest(h, n) == SubSeq(h, 1, IF n < Len(h) THEN n ELSE Len(h))

\* A set() that gives the commit up once the adapter has failed.
Commit_durableOnly(next) ==
  /\ InFlight < MaxPending
  /\ LET r == setState(employees, IF faults = {} THEN next ELSE employees,
                       listeners) IN
       /\ employees' = r.state
       /\ seen' = r.seen
       /\ awaiting' = Append(Older(awaiting), setItem(r.state))
  /\ txq' = Older(txq)
  /\ kvAge' = kvAge + 1
  /\ recent' = <<next>> \o recent
  /\ UNCHANGED <<listeners, kv>>

\* The wrapped set() of the persist middleware: set(next), then setItem().
Commit(next) ==
  /\ InFlight < MaxPending
  /\ LET r == setState(employees, next, listeners) IN
       /\ employees' = r.state
       /\ seen' = r.seen
       /\ awaiting' = Append(Older(awaiting), setItem(r.state))
  /\ txq' = Older(txq)
  /\ kvAge' = kvAge + 1
  /\ recent' = <<next>> \o recent
  /\ UNCHANGED <<listeners, kv>>

NoCommit ==
  /\ seen' = [c \in Callbacks |-> NotCalled]
  /\ UNCHANGED <<listeners, awaiting, txq, kv, kvAge, recent>>

Streak(op) ==
  IF lastOp.op = op THEN (IF lastOp.streak < 2 THEN lastOp.streak + 1 ELSE 2)
  ELSE 1

\* ---------------------------------------------------------------- actions
\* seedFromJSONIfEmpty not called.
SeedIdle ==
  [pc |-> "idle", hydrated |-> FALSE, fetched |-> FALSE, response |-> "none",
   arr |-> <<>>, upserts |-> 0, committed |-> <<>>]

\* No getItem call completed.
NoResult == [key |-> "", value |-> <<>>]

\* The database is open and the hydration of an empty database is over.
Ready ==
  /\ dbPromise = "fulfilled"
  /\ hydration = "done"
  /\ seed = SeedIdle

\* The parts of the application a specification does not exercise.
AdapterIdle ==
  got = NoResult /\ acked = [k \in Keys |-> <<>>] /\ faults = {}
ValidationIdle == clock = <<>> /\ dto = <<>> /\ errs = <<>>
ListIdle == list = <<>>

UiIdle ==
  /\ pager = <<>> /\ form = <<>> /\ search = <<>>
  /\ css = <<>> /\ header = <<>>

\* The store as createEmpState leaves it, nothing written yet.
Fresh ==
  /\ employees = <<>>
  /\ listeners = {}
  /\ seen = [c \in Callbacks |-> NotCalled]
  /\ lastOp = [op |-> "init", arg |-> NoArg, id |-> Undefined,
               threw |-> FALSE, error |-> NoError, ret |-> Undefined,
               streak |-> 1]
  /\ awaiting = <<>>
  /\ txq = <<>>
  /\ kvAge = 0
  /\ recent = << <<>> >>

Init ==
  /\ Ready
  /\ AdapterIdle
  /\ ValidationIdle
  /\ ListIdle /\ UiIdle
  /\ Fresh
  /\ kv = [k \in Keys |-> <<>>]

Upsert(e, gid) ==
  LET r == upsert(employees, e, gid) IN
    /\ lastOp' = [op |-> "upsert", arg |-> e, id |-> r.id, threw |-> r.threw,
                  error |-> r.error, ret |-> r.ret, streak |-> 1]
    /\ IF r.set THEN Commit(r.employees)
       ELSE employees' = r.employees /\ NoCommit

Remove(id) ==
  /\ lastOp' = [op |-> "remove", arg |-> NoArg, id |-> id, threw |-> FALSE,
                error |-> NoError, ret |-> Undefined, streak |-> 1]
  /\ Commit(remove(employees, id))

ClearAll ==
  /\ lastOp' = [op |-> "clearAll", arg |-> NoArg, id |-> Undefined,
                threw |-> FALSE, error |-> NoError, ret |-> Undefined,
                streak |-> Streak("clearAll")]
  /\ Commit(clearAll(employees))

Subscribe(c) ==
  /\ c \notin listeners
  /\ listeners' = listeners \cup {c}
  /\ lastOp' = [op |-> "subscribe", arg |-> NoArg, id |-> Undefined,
                threw |-> FALSE, error |-> NoError, ret |-> Undefined,
                streak |-> 1]
  /\ seen' = [x \in Callbacks |-> NotCalled]
  /\ UNCHANGED <<employees, awaiting, txq, kv, kvAge, recent>>

Unsubscribe(c) ==
  /\ c \in listeners
  /\ listeners' = listeners \ {c}
  /\ lastOp' = [op |-> "unsubscribe", arg |-> NoArg, id |-> Undefined,
                threw |-> FALSE, error |-> NoError, ret |-> Undefined,
                streak |-> 1]
  /\ seen' = [x \in Callbacks |-> NotCalled]
  /\ UNCHANGED <<employees, awaiting, txq, kv, kvAge, recent>>

\* A continuation that overtakes the ones registered before it.
DbResolved_overtake ==
  /\ awaiting # <<>>
  /\ txq' = <<Head(awaiting)>> \o txq
  /\ awaiting' = Tail(awaiting)
  /\ UNCHANGED <<employees, listeners, seen, lastOp, kv, kvAge, recent>>

\* idbStorage.setItem resumes after `await db()` and calls put, which opens
\* a readwrite transaction on the object store. Continuations of the same
\* promise run in the order they were registered.
DbResolved ==
  /\ awaiting # <<>>
  /\ txq' = Append(txq, Head(awaiting))
  /\ awaiting' = Tail(awaiting)
  /\ UNCHANGED <<employees, listeners, seen, lastOp, kv, kvAge, recent>>

\* Transactions completing newest first.
TxComplete_newestFirst ==
  /\ txq # <<>>
  /\ kv' = [kv EXCEPT ![txq[Len(txq)].key] = <<txq[Len(txq)].value>>]
  /\ kvAge' = txq[Len(txq)].age
  /\ recent' = Newest(recent, txq[Len(txq)].age + 1)
  /\ txq' = SubSeq(txq, 1, Len(txq) - 1)
  /\ UNCHANGED <<employees, listeners, seen, lastOp, awaiting>>

\* IndexedDB runs readwrite transactions on one object store in the order
\* they were created; the put replaces the value under the key.
TxComplete ==
  /\ txq # <<>>
  /\ kv' = [kv EXCEPT ![Head(txq).key] = <<Head(txq).value>>]
  /\ kvAge' = Head(txq).age
  /\ recent' = Newest(recent, Head(txq).age + 1)
  /\ txq' = Tail(txq)
  /\ UNCHANGED <<employees, listeners, seen, lastOp, awaiting>>

Inputs == [id : Ids \cup {Undefined}, email : RawEmails, name : Names]

\* No write of the store key is in flight.
Settled == InFlight = 0

\* The store and its subscribers, each call made once the write of the
\* previous store call is durable (user-paced calls). What is in memory does
\* not depend on the writes in flight: nothing reads kv back in a session.
Next ==
  \/ /\ Settled
     /\ \E e \in Inputs :
          \E gid \in (IF e.id = Undefined THEN Ids ELSE {e.id}) : Upsert(e, gid)
     /\ UNCHANGED otherVars
  \/ /\ Settled
     /\ \E id \in Ids : Remove(id)
     /\ UNCHANGED otherVars
  \/ /\ Settled
     /\ ClearAll
     /\ UNCHANGED otherVars
  \/ /\ Settled
     /\ \E c \in Callbacks : Subscribe(c)
     /\ UNCHANGED otherVars
  \/ /\ Settled
     /\ \E c \in Callbacks : Unsubscribe(c)
     /\ UNCHANGED otherVars
  \/ DbResolved /\ UNCHANGED otherVars
  \/ TxComplete /\ UNCHANGED otherVars

Spec == Init /\ [][Next]_vars

\* The store and the adapter with store calls made back to back, while
\* up to MaxPending writes are still in flight (the seed loop, bulk delete,
\* a user faster than the database).
PersistInputs ==
  [id : Ids \cup {Undefined}, email : { <<"a">>, <<"B">> }, name : {"x"}]

NextPersist ==
  \/ /\ \E e \in PersistInputs :
          \E gid \in (IF e.id = Undefined THEN Ids ELSE {e.id}) : Upsert(e, gid)
     /\ UNCHANGED otherVars
  \/ (\E id \in Ids : Remove(id)) /\ UNCHANGED otherVars
  \/ ClearAll /\ UNCHANGED otherVars
  \/ DbResolved /\ UNCHANGED otherVars
  \/ TxComplete /\ UNCHANGED otherVars

SpecPersist == Init /\ [][NextPersist]_vars

\* ------------------------------------------------- application start
\* What an earlier session left under NAME: nothing, a snapshot written by
\* this schema version, a snapshot tagged with another version.
Kept == << [id |-> "i1", email |-> <<"a">>, name |-> "y"] >>

Stored(emps, v) == [state |-> partialize(emps), version |-> v]

Persisted ==
  { <<>>, <<Stored(Kept, VERSION)>>, <<Stored(Kept, VERSION + 1)>> }

\* Bodies the seed URL may answer with: two employees, the first with the id
\* and (once normalized) the email of the kept record; two employees that
\* have no email.
SeedArrays ==
  { << [id |-> "i1", email |-> <<" ", "A", " ">>, name |-> "x"],
       [id |-> "i2", email |-> <<"B">>, name |-> "x"] >>,
    << [id |-> "i1", email |-> <<>>, name |-> "x"],
       [id |-> "i2", email |-> <<>>, name |-> "x"] >> }

FetchOutcomes == {"ok", "not-ok", "network-error"}

\* The loop of seedFromJSONIfEmpty: upsert every element with its email
\* trimmed and lowercased; an upsert that throws ends the loop. done holds
\* the collections committed so far, calls counts the upsert calls.
RECURSIVE seedLoop(_, _, _, _)
seedLoop(emps, arr, done, calls) ==
  IF arr = <<>>
  THEN [employees |-> emps, done |-> done, calls |-> calls, threw |-> FALSE,
        error |-> NoError]
  ELSE LET e == [Head(arr) EXCEPT !.email = toLowerCase(trim(@))]
           r == upsert(emps, e, e.id)
       IN IF r.threw
          THEN [employees |-> emps, done |-> done, calls |-> calls + 1,
                threw |-> TRUE, error |-> r.error]
          ELSE seedLoop(r.employees, Tail(arr), Append(done, r.employees),
                        calls + 1)

\* The store as createStore(persist(...)) leaves it: empty, its hydration
\* read issued and waiting for the database to open.
Created ==
  /\ Fresh
  /\ dbPromise = "pending"
  /\ hydration = "awaiting"

InitBoot ==
  /\ Created
  /\ AdapterIdle
  /\ ValidationIdle
  /\ ListIdle /\ UiIdle
  /\ kv \in [Keys -> Persisted]
  /\ seed = [SeedIdle EXCEPT !.pc = "start"]

\* openDB succeeds.
DbOpened ==
  /\ dbPromise = "pending"
  /\ dbPromise' = "fulfilled"
  /\ UNCHANGED <<storeVars, hydration, seed, adapterVars, validationVars,
                 listVars, uiVars>>

\* The getItem call made by persist when the store was created resumes after
\* `await db()` and queues its get; it was the first to await the promise.
HydrationResumes ==
  /\ hydration = "awaiting"
  /\ dbPromise = "fulfilled"
  /\ hydration' = "queued"
  /\ UNCHANGED <<storeVars, dbPromise, seed, adapterVars, validationVars,
                 listVars, uiVars>>

\* A hydration that uses whatever is stored, whatever its version.
Hydrate_ignoreVersion(resave) ==
  /\ hydration = "queued"
  /\ LET stored == kv[NAME]
         parsed == stored # <<>>
         merged == IF parsed THEN stored[1].state.employees ELSE employees
     IN /\ got' = [key |-> NAME, value |-> stored]
        /\ employees' = merged
        /\ seen' = IF parsed THEN setState(employees, merged, listeners).seen
                   ELSE [c \in Callbacks |-> NotCalled]
        /\ awaiting' = IF parsed /\ resave
                       THEN Append(awaiting, setItem(merged)) ELSE awaiting
  /\ hydration' = "done"
  /\ lastOp' = [op |-> "hydrate", arg |-> NoArg, id |-> Undefined,
                threw |-> FALSE, error |-> NoError, ret |-> Undefined,
                streak |-> 1]
  /\ UNCHANGED <<listeners, txq, kv, kvAge, recent, dbPromise, seed, acked,
                 faults, validationVars, listVars, uiVars>>

\* The get of the hydration completes and persist applies what it read.
\* Nothing stored: the adapter yields undefined, which createJSONStorage
\* cannot parse, and the state stays as it is. Another version and no
\* migrate option: no persisted state is used and the current state is set
\* again. Otherwise the persisted slice is spread over the current state and
\* set, replacing employees. The set is the store's own set, not the wrapped
\* one; whether persist then writes the state back depends on the zustand
\* release (resave).
Hydrate(resave) ==
  /\ hydration = "queued"
  /\ LET stored == kv[NAME]
         parsed == stored # <<>>
         usable == parsed /\ stored[1].version = VERSION
         merged == IF usable THEN stored[1].state.employees ELSE employees
     IN /\ got' = [key |-> NAME, value |-> stored]
        /\ employees' = merged
        /\ seen' = IF parsed THEN setState(employees, merged, listeners).seen
                   ELSE [c \in Callbacks |-> NotCalled]
        /\ awaiting' = IF parsed /\ resave
                       THEN Append(awaiting, setItem(merged)) ELSE awaiting
  /\ hydration' = "done"
  /\ lastOp' = [op |-> "hydrate", arg |-> NoArg, id |-> Undefined,
                threw |-> FALSE, error |-> NoError, ret |-> Undefined,
                streak |-> 1]
  /\ UNCHANGED <<listeners, txq, kv, kvAge, recent, dbPromise, seed, acked,
                 faults, validationVars, listVars, uiVars>>

\* AppRoot.firstUpdated calls seedFromJSONIfEmpty, which runs up to its
\* first await: it returns if all() is not empty, else it calls fetch.
FirstUpdated ==
  /\ seed.pc = "start"
  /\ seed' = [seed EXCEPT
                !.pc = IF Len(all(employees)) > 0 THEN "done" ELSE "fetching",
                !.hydrated = (hydration = "done"),
                !.fetched = ~(Len(all(employees)) > 0)]
  /\ UNCHANGED <<storeVars, dbPromise, hydration, adapterVars,
                 validationVars, listVars, uiVars>>

\* The fetch settles. A rejected fetch rejects seedFromJSONIfEmpty, which
\* has no handler around the await; a response that is not ok makes it
\* return; an ok response is read as JSON.
FetchSettles(outcome, arr) ==
  /\ seed.pc = "fetching"
  /\ seed' = [seed EXCEPT
                !.pc = CASE outcome = "network-error" -> "raised"
                         [] outcome = "not-ok" -> "done"
                         [] OTHER -> "parsing",
                !.response = outcome,
                !.arr = IF outcome = "ok" THEN arr ELSE <<>>]
  /\ UNCHANGED <<storeVars, dbPromise, hydration, adapterVars,
                 validationVars, listVars, uiVars>>

\* res.json() resolves and the loop runs to its end or to the first upsert
\* that throws, which rejects seedFromJSONIfEmpty. Every upsert that commits
\* notifies the listeners and issues a setItem. committed keeps the
\* collection as the last of these commits left it.
SeedUpserts ==
  /\ seed.pc = "parsing"
  /\ LET r == seedLoop(employees, seed.arr, <<>>, 0)
         n == Len(r.done)
     IN /\ employees' = r.employees
        /\ seen' = IF n > 0 THEN setState(employees, r.employees, listeners).seen
                   ELSE [c \in Callbacks |-> NotCalled]
        /\ awaiting' = awaiting \o [i \in 1..n |-> setItem(r.done[i])]
        /\ seed' = [seed EXCEPT !.pc = IF r.threw THEN "raised" ELSE "done",
                                !.upserts = r.calls,
                                !.committed = IF n > 0 THEN r.employees
                                              ELSE <<>>]
        /\ lastOp' = [op |-> "seed", arg |-> NoArg, id |-> Undefined,
                      threw |-> r.threw, error |-> r.error,
                      ret |-> Undefined, streak |-> 1]
  /\ UNCHANGED <<listeners, txq, kv, kvAge, recent, dbPromise, hydration,
                 adapterVars, validationVars, listVars, uiVars>>

\* The start of the application: the database opens, the hydration read
\* and the first render with its seeding run in any order the event loop
\* allows. The get of the hydration is queued before every put: setItem
\* calls resume after it, and their transactions run after its own.
NextBoot ==
  \/ DbOpened
  \/ HydrationResumes
  \/ \E resave \in BOOLEAN : Hydrate(resave)
  \/ FirstUpdated
  \/ \E outcome \in FetchOutcomes, arr \in SeedArrays :
       FetchSettles(outcome, arr)
  \/ SeedUpserts
  \/ /\ dbPromise = "fulfilled"
     /\ hydration # "awaiting"
     /\ DbResolved
     /\ UNCHANGED otherVars
  \/ /\ hydration = "done"
     /\ TxComplete
     /\ UNCHANGED otherVars

SpecBoot == InitBoot /\ [][NextBoot]_vars

\* --------------------------------------------------- failing database
\* openDB fails: the cached promise is rejected for the rest of the session.
DbOpenFailed ==
  /\ dbPromise = "pending"
  /\ dbPromise' = "rejected"
  /\ faults' = faults \cup {"open"}
  /\ UNCHANGED <<storeVars, hydration, seed, got, acked, validationVars,
                 listVars, uiVars>>

\* The getItem of the hydration rejects at `await db()`; persist catches the
\* rejection and leaves the state as it is.
HydrationRejected ==
  /\ hydration = "awaiting"
  /\ dbPromise = "rejected"
  /\ hydration' = "done"
  /\ UNCHANGED <<storeVars, dbPromise, seed, adapterVars, validationVars,
                 listVars, uiVars>>

\* A setItem call rejects at `await db()`: the promise that persist
\* discarded with `void` is rejected, nothing is queued.
DbRejected ==
  /\ dbPromise = "rejected"
  /\ hydration # "awaiting"
  /\ awaiting # <<>>
  /\ awaiting' = Tail(awaiting)
  /\ kvAge' = Head(awaiting).age
  /\ recent' = Newest(recent, Head(awaiting).age + 1)
  /\ UNCHANGED <<employees, listeners, seen, lastOp, txq, kv, otherVars>>

\* The put of a setItem call fails (quota, aborted transaction): the
\* discarded promise is rejected and the key keeps its value.
TxFailed ==
  /\ txq # <<>>
  /\ txq' = Tail(txq)
  /\ kvAge' = Head(txq).age
  /\ recent' = Newest(recent, Head(txq).age + 1)
  /\ faults' = faults \cup {"write"}
  /\ UNCHANGED <<employees, listeners, seen, lastOp, awaiting, kv, bootVars,
                 got, acked, validationVars, listVars, uiVars>>

InitDegraded ==
  /\ Created
  /\ AdapterIdle
  /\ ValidationIdle
  /\ ListIdle /\ UiIdle
  /\ kv = [k \in Keys |-> <<>>]
  /\ seed = SeedIdle

DegradedInputs == [id : {"i1", Undefined}, email : { <<"a">> }, name : {"x"}]

\* A session in which the database may fail to open and any write may fail,
\* with store calls made at any moment.
NextDegraded ==
  \/ /\ \E e \in DegradedInputs :
          \E gid \in (IF e.id = Undefined THEN Ids ELSE {e.id}) : Upsert(e, gid)
     /\ UNCHANGED otherVars
  \/ (\E id \in Ids : Remove(id)) /\ UNCHANGED otherVars
  \/ ClearAll /\ UNCHANGED otherVars
  \/ Subscribe("c1") /\ UNCHANGED otherVars
  \/ DbOpened
  \/ DbOpenFailed
  \/ HydrationResumes
  \/ HydrationRejected
  \/ \E resave \in BOOLEAN : Hydrate(resave)
  \/ /\ dbPromise = "fulfilled"
     /\ hydration # "awaiting"
     /\ DbResolved
     /\ UNCHANGED otherVars
  \/ DbRejected
  \/ /\ hydration = "done"
     /\ TxComplete
     /\ UNCHANGED otherVars
  \/ hydration = "done" /\ TxFailed

SpecDegraded == InitDegraded /\ [][NextDegraded]_vars

\* ------------------------------------------- the key-value adapter alone
KvKeys == {"k1", "k2"}
KvValues == {"v1", "v2"}

Request(op, key, value) ==
  [op |-> op, key |-> key, value |-> value, age |-> 0]

\* idbStorage.setItem(key, value), getItem(key), removeItem(key) are called:
\* each is an async function that suspends at `await db()`.
CallSetItem(key, value) ==
  /\ InFlight < MaxPending
  /\ awaiting' = Append(awaiting, Request("put", key, <<value>>))
  /\ UNCHANGED <<employees, listeners, seen, lastOp, txq, kv, kvAge, recent,
                 otherVars>>

CallGetItem(key) ==
  /\ InFlight < MaxPending
  /\ awaiting' = Append(awaiting, Request("get", key, <<>>))
  /\ UNCHANGED <<employees, listeners, seen, lastOp, txq, kv, kvAge, recent,
                 otherVars>>

CallRemoveItem(key) ==
  /\ InFlight < MaxPending
  /\ awaiting' = Append(awaiting, Request("delete", key, <<>>))
  /\ UNCHANGED <<employees, listeners, seen, lastOp, txq, kv, kvAge, recent,
                 otherVars>>

\* A removeItem that empties the object store.
KvTx_clearOnDelete ==
  /\ txq # <<>>
  /\ LET r == Head(txq) IN
       /\ kv' = CASE r.op = "put" -> [kv EXCEPT ![r.key] = r.value]
                  [] r.op = "delete" -> [k \in DOMAIN kv |-> <<>>]
                  [] OTHER -> kv
       /\ got' = IF r.op = "get" THEN [key |-> r.key, value |-> kv[r.key]]
                 ELSE got
       /\ acked' = CASE r.op = "put" -> [acked EXCEPT ![r.key] = r.value]
                     [] r.op = "delete" -> [acked EXCEPT ![r.key] = <<>>]
                     [] OTHER -> acked
  /\ txq' = Tail(txq)
  /\ UNCHANGED <<employees, listeners, seen, lastOp, awaiting, kvAge, recent,
                 bootVars, faults, validationVars, listVars, uiVars>>

\* The transaction of the oldest queued call runs and the call completes:
\* put(STORE, value, key), get(STORE, key) or delete(STORE, key). A get
\* resolves to what the key holds, undefined (<<>>) when it holds nothing.
\* acked records what the completed call was asked to do.
KvTx ==
  /\ txq # <<>>
  /\ LET r == Head(txq) IN
       /\ kv' = CASE r.op = "put" -> [kv EXCEPT ![r.key] = r.value]
                  [] r.op = "delete" -> [kv EXCEPT ![r.key] = <<>>]
                  [] OTHER -> kv
       /\ got' = IF r.op = "get" THEN [key |-> r.key, value |-> kv[r.key]]
                 ELSE got
       /\ acked' = CASE r.op = "put" -> [acked EXCEPT ![r.key] = r.value]
                     [] r.op = "delete" -> [acked EXCEPT ![r.key] = <<>>]
                     [] OTHER -> acked
  /\ txq' = Tail(txq)
  /\ UNCHANGED <<employees, listeners, seen, lastOp, awaiting, kvAge, recent,
                 bootVars, faults, validationVars, listVars, uiVars>>

InitKv ==
  /\ Ready
  /\ ValidationIdle
  /\ ListIdle /\ UiIdle
  /\ Fresh
  /\ kv = [k \in KvKeys |-> <<>>]
  /\ got = NoResult
  /\ acked = [k \in KvKeys |-> <<>>]
  /\ faults = {}

\* Calls of the adapter on its own, up to MaxPending of them outstanding.
NextKv ==
  \/ \E k \in KvKeys, v \in KvValues : CallSetItem(k, v)
  \/ \E k \in KvKeys : CallGetItem(k)
  \/ \E k \in KvKeys : CallRemoveItem(k)
  \/ DbResolved /\ UNCHANGED otherVars
  \/ KvTx

SpecKv == InitKv /\ [][NextKv]_vars

\* ------------------------------------------------------------ validation
\* (src/src/utils/validation.js) A field value is undefined, null or a
\* string; strings are sequences of one-character strings.
JsUndefined == [t |-> "undefined", s |-> <<>>]
JsNull == [t |-> "null", s |-> <<>>]
Str(s) == [t |-> "string", s |-> s]

\* Character classes of the regular expressions, over the characters the
\* inputs are made of. "^" stands for a combining mark (\p{M}).
IsLetter(c) == c \in {"a", "b", "c", "e", "h", "i", "l", "n", "o", "r", "s",
                      "t", "u", "y", "A", "B", "J", "M", "S", "T"}
IsMark(c) == c = "^"
IsDigit(c) == c \in {"0", "1", "2", "3", "4", "5", "6", "7", "8", "9"}
IsWhite(c) == c \in {" ", "\t"}

Err(type, labelKey, args) ==
  [type |-> type, labelKey |-> labelKey, args |-> args]

\* v || ''
OrEmpty(v) == IF v.t = "string" THEN v.s ELSE <<>>

req(v, labelKey, out) ==
  IF v.t = "undefined" \/ v.t = "null" \/ trim(v.s) = <<>>
  THEN Append(out, Err("required", labelKey, <<>>))
  ELSE out

\* The bounds the name_length error reports, and the repetition bounds of
\* the regular expression of isName for the characters after the first.
NameMin == 2
NameMax == 50
RestMin == 1
RestMax == 48

\* /^[\p{L}][\p{L}\p{M}\s.'-]{1,48}$/u
isName(v) ==
  LET s == OrEmpty(v) IN
    /\ Len(s) >= 1 + RestMin
    /\ Len(s) <= 1 + RestMax
    /\ IsLetter(s[1])
    /\ \A i \in 2..Len(s) :
         IsLetter(s[i]) \/ IsMark(s[i]) \/ IsWhite(s[i])
           \/ s[i] \in {".", "'", "-"}

\* /^[^\s@]+@[^\s@]+\.[^\s@]{2,}$/: one @ with something before it, and
\* after it a dot with something before it and two or more characters after.
isValidEmail(v) ==
  LET s == OrEmpty(v)
      plain(i) == ~IsWhite(s[i]) /\ s[i] # "@"
  IN \E a \in 2..Len(s), d \in 4..Len(s) :
       /\ s[a] = "@" /\ s[d] = "."
       /\ a + 1 < d /\ d + 2 <= Len(s)
       /\ \A i \in 1..Len(s) : i # a => plain(i)

\* The digit counts isValidPhone accepts.
PhoneMin == 10
PhoneMax == 16

digits(s) == SelectSeq(s, IsDigit)

isValidPhone(v) ==
  LET s == OrEmpty(v) IN
    /\ s # <<>>
    /\ Len(digits(s)) >= PhoneMin
    /\ Len(digits(s)) <= PhoneMax
    /\ \A i \in 1..Len(s) :
         IsDigit(s[i]) \/ IsWhite(s[i]) \/ s[i] \in {"+", "(", ")", "-", "."}

DEPARTMENTS ==
  { <<"A", "n", "a", "l", "y", "t", "i", "c", "s">>, <<"T", "e", "c", "h">> }
POSITIONS ==
  { <<"J", "u", "n", "i", "o", "r">>, <<"M", "e", "d", "i", "o", "r">>,
    <<"S", "e", "n", "i", "o", "r">> }

\* Dates. A Date is its time value in hours since the epoch; a day number
\* counts days since the epoch. Day arithmetic as ECMAScript defines it.
DayFromYear(y) ==
  365 * (y - 1970) + ((y - 1969) \div 4) - ((y - 1901) \div 100)
    + ((y - 1601) \div 400)

InLeapYear(y) == DayFromYear(y + 1) - DayFromYear(y) = 366

\* Day within the year on which month mn (0..11) starts.
MonthStart(mn, leap) ==
  <<0, 31, 59, 90, 120, 151, 181, 212, 243, 273, 304, 334>>[mn + 1]
    + (IF leap /\ mn >= 2 THEN 1 ELSE 0)

\* MakeDay: months beyond 0..11 carry into the year, days beyond the month
\* carry into the following months.
MakeDay(year, month, date) ==
  LET ym == year + (month \div 12)
      mn == month % 12
  IN DayFromYear(ym) + MonthStart(mn, InLeapYear(ym)) + date - 1

YearFromDay(day) ==
  LET a == 1970 + (day \div 365)
      b == 1970 + (day \div 366)
      lo == (IF a < b THEN a ELSE b) - 1
      hi == (IF a < b THEN b ELSE a) + 1
  IN CHOOSE y \in lo..hi : DayFromYear(y) <= day /\ day < DayFromYear(y + 1)

MonthFromDay(day) ==
  LET y == YearFromDay(day)
      within == day - DayFromYear(y)
  IN CHOOSE mn \in 0..11 :
       /\ MonthStart(mn, InLeapYear(y)) <= within
       /\ mn < 11 => within < MonthStart(mn + 1, InLeapYear(y))

DateFromDay(day) ==
  LET y == YearFromDay(day)
  IN day - DayFromYear(y) - MonthStart(MonthFromDay(day), InLeapYear(y)) + 1

\* Date.UTC(y, month, d): a year 0..99 means 1900 + year.
DateUTC(y, month, d) ==
  24 * MakeDay(IF y >= 0 /\ y <= 99 THEN 1900 + y ELSE y, month, d)

getUTCFullYear(t) == YearFromDay(t \div 24)
getUTCMonth(t) == MonthFromDay(t \div 24)
getUTCDate(t) == DateFromDay(t \div 24)

DigitChars == <<"0", "1", "2", "3", "4", "5", "6", "7", "8", "9">>

\* Number(s) of a string of digits
RECURSIVE Number(_)
Number(s) ==
  IF s = <<>> THEN 0
  ELSE 10 * Number(SubSeq(s, 1, Len(s) - 1))
         + (CHOOSE n \in 0..9 : DigitChars[n + 1] = s[Len(s)])

\* n written with w digits
RECURSIVE Pad(_, _)
Pad(n, w) ==
  IF w = 0 THEN <<>> ELSE Append(Pad(n \div 10, w - 1), DigitChars[(n % 10) + 1])

\* date.toISOString().slice(0, 10); a year above 9999 is written with a sign
\* and six digits.
toISODate(t) ==
  LET y == getUTCFullYear(t)
      rest == <<"-">> \o Pad(getUTCMonth(t) + 1, 2) \o <<"-">>
                \o Pad(getUTCDate(t), 2)
  IN IF y <= 9999 THEN Pad(y, 4) \o rest
     ELSE SubSeq(<<"+">> \o Pad(y, 6) \o rest, 1, 10)

NoDate == [ok |-> FALSE, t |-> 0]

\* /^\d{4}-\d{2}-\d{2}$/
IsoShape(s) ==
  /\ Len(s) = 10
  /\ s[5] = "-" /\ s[8] = "-"
  /\ \A i \in {1, 2, 3, 4, 6, 7, 9, 10} : IsDigit(s[i])

parseISO_noRoundTrip(v) ==
  LET s == OrEmpty(v) IN
    IF ~IsoShape(s) THEN NoDate
    ELSE [ok |-> TRUE,
          t |-> DateUTC(Number(SubSeq(s, 1, 4)), Number(SubSeq(s, 6, 7)) - 1,
                        Number(SubSeq(s, 9, 10)))]

\* null, or the Date built in UTC when writing it back gives the same string
parseISO(v) ==
  LET s == OrEmpty(v) IN
    IF ~IsoShape(s) THEN NoDate
    ELSE LET y == Number(SubSeq(s, 1, 4))
             m == Number(SubSeq(s, 6, 7))
             d == Number(SubSeq(s, 9, 10))
             date == DateUTC(y, m - 1, d)
         IN IF toISODate(date) = s THEN [ok |-> TRUE, t |-> date] ELSE NoDate

\* setHours(0, 0, 0, 0): midnight of the local date, tz hours before the
\* midnight of that date in UTC.
stripTime(c) == 24 * MakeDay(c.y, c.m - 1, c.d) - c.tz

yearsBetween_byYear(a, b) == getUTCFullYear(b) - getUTCFullYear(a)

yearsBetween(a, b) ==
  LET y == getUTCFullYear(b) - getUTCFullYear(a)
      m == getUTCMonth(b) - getUTCMonth(a)
      d == getUTCDate(b) - getUTCDate(a)
  IN IF m < 0 \/ (m = 0 /\ d < 0) THEN y - 1 ELSE y

MinYears == 15

\* The error e when c holds (errs.push under an if).
PushIf(c, e) == IF c THEN <<e>> ELSE <<>>

\* validateEmployee(dto). The paired keys of employment_after_birth are left
\* out of its error; args holds the numbers an error carries.
validateEmployee(d) ==
  LET required ==
        req(d.position, "emp.position",
        req(d.department, "emp.department",
        req(d.email, "emp.email",
        req(d.phone, "emp.phone",
        req(d.birthDate, "emp.birthDate",
        req(d.employmentDate, "emp.employmentDate",
        req(d.lastName, "emp.lastName",
        req(d.firstName, "emp.firstName", <<>>))))))))
      today == stripTime(clock)
      birth == parseISO(d.birthDate)
      employed == parseISO(d.employmentDate)
  IN IF required # <<>> THEN required
     ELSE PushIf(~isName(d.firstName),
                 Err("name_length", "emp.firstName", <<NameMin, NameMax>>))
       \o PushIf(~isName(d.lastName),
                 Err("name_length", "emp.lastName", <<NameMin, NameMax>>))
       \o PushIf(~isValidEmail(d.email), Err("email_invalid", "emp.email", <<>>))
       \o PushIf(~isValidPhone(d.phone), Err("phone_invalid", "emp.phone", <<>>))
       \o PushIf(d.department.s \notin DEPARTMENTS,
                 Err("enum_invalid", "emp.department", <<>>))
       \o PushIf(d.position.s \notin POSITIONS,
                 Err("enum_invalid", "emp.position", <<>>))
       \o PushIf(~birth.ok, Err("date_invalid", "emp.birthDate", <<>>))
       \o PushIf(~employed.ok, Err("date_invalid", "emp.employmentDate", <<>>))
       \o PushIf(birth.ok /\ birth.t > today,
                 Err("date_future", "emp.birthDate", <<>>))
       \o PushIf(employed.ok /\ employed.t > today,
                 Err("date_future", "emp.employmentDate", <<>>))
       \o PushIf(birth.ok /\ employed.ok /\ employed.t < birth.t,
                 Err("employment_after_birth", "emp.employmentDate", <<>>))
       \o PushIf(birth.ok /\ employed.ok
                   /\ yearsBetween(birth.t, employed.t) < MinYears,
                 Err("age_min", "emp.employmentDate", <<MinYears>>))

\* validateEmployee has not returned yet.
NotValidated == << Err("pending", "", <<>>) >>

\* The parts of the application a validation or a list does not touch.
StoreUnused ==
  /\ Ready
  /\ AdapterIdle
  /\ Fresh
  /\ kv = [k \in Keys |-> <<>>]

\* A form hands its DTO to validateEmployee at some moment of the clock.
InitValidation(dtos, clocks) ==
  /\ StoreUnused
  /\ ListIdle /\ UiIdle
  /\ clock \in clocks
  /\ dto \in dtos
  /\ errs = NotValidated

Validate ==
  /\ errs = NotValidated
  /\ errs' = validateEmployee(dto)
  /\ UNCHANGED <<storeVars, bootVars, adapterVars, clock, dto, listVars, uiVars>>

\* Inputs of the validation. BASE is the valid DTO of the tests, with a
\* shorter last name and email; BAD breaks the rule of every field.
Fields == {"firstName", "lastName", "employmentDate", "birthDate", "phone",
           "email", "department", "position"}

Rep(c, n) == [i \in 1..n |-> c]

BASE ==
  [firstName |-> Str(<<"A", "l", "i", "c", "e">>),
   lastName |-> Str(<<"S", "u", "n">>),
   employmentDate |-> Str(<<"2", "0", "2", "0", "-", "0", "1", "-", "0", "1">>),
   birthDate |-> Str(<<"1", "9", "9", "0", "-", "0", "1", "-", "0", "1">>),
   phone |-> Str(<<"+", "1", " ", "(", "2", "1", "2", ")", " ", "5", "5", "5",
                   "-", "0", "1", "2", "3">>),
   email |-> Str(<<"a", "@", "b", ".", "c", "o">>),
   department |-> Str(<<"A", "n", "a", "l", "y", "t", "i", "c", "s">>),
   position |-> Str(<<"J", "u", "n", "i", "o", "r">>)]

BAD ==
  [firstName |-> Str(<<"A">>),
   lastName |-> Str(<<"S", "1">>),
   employmentDate |-> Str(<<"2", "0", "2", "0", "-", "0", "2", "-", "3", "0">>),
   birthDate |-> Str(<<"1", "9", "9", "0", "-", "1", "3", "-", "0", "1">>),
   phone |-> Str(<<"1", "2", "3">>),
   email |-> Str(<<"a", "b">>),
   department |-> Str(<<"S", "a", "l", "e", "s">>),
   position |-> Str(<<"B", "o", "s", "s">>)]

\* The ways a field can be missing: undefined, null, empty, blank.
MissingKinds == {JsUndefined, JsNull, Str(<<>>), Str(<<" ", " ">>)}

Without(base, missing, kind) ==
  [f \in Fields |-> IF f \in missing THEN kind ELSE base[f]]

\* The local date of the clock in the inputs, written as a date string.
TodayString == <<"2", "0", "2", "6", "-", "1", "1", "-", "0", "6">>

\* The clock at the validation: 6 November 2026 in a zone behind UTC, at
\* UTC, and ahead of UTC.
Clocks == {[y |-> 2026, m |-> 11, d |-> 6, tz |-> z] : z \in {0 - 5, 0, 3}}

\* DTOs with some of the required fields missing, the others valid or not.
MissingDtos ==
  {Without(base, missing, kind) :
     base \in {BASE, BAD}, missing \in (SUBSET Fields) \ {{}},
     kind \in MissingKinds}

\* DTOs that obey every rule of the data model, up to its boundaries.
ValidDtos ==
  {[BASE EXCEPT !.firstName = Str(n), !.employmentDate = Str(e),
                !.phone = Str(ph), !.department = Str(dep)] :
     n \in {<<"A", "l">>, Rep("a", 49), Rep("a", 50),
            <<"A", "l", " ", "S", "'", "c", "-", "e", ".">>},
     e \in {BASE.employmentDate.s, TodayString,
            <<"2", "0", "0", "5", "-", "0", "1", "-", "0", "1">>},
     ph \in {BASE.phone.s, Rep("5", 10)},
     dep \in DEPARTMENTS}

InitRequired == InitValidation(MissingDtos \cup ValidDtos, Clocks)

SpecRequired == InitRequired /\ [][Validate]_vars

\* Names around the bounds of the length, names with a character that is
\* not allowed, names that begin with an allowed character that is no letter.
NameDtos ==
  LET samples ==
        {Rep("a", n) : n \in {1, 2, 3, 49, 50, 51}}
          \cup { <<"a", "1">>, <<"a", "l", "@">>, <<"-", "a", "l">>,
                 <<"A", "l", " ", "S", "'", "c", "-", "e", ".">>, <<"e", "^">> }
  IN {[BASE EXCEPT !.firstName = Str(a), !.lastName = Str(b)] :
        a \in samples, b \in samples}

InitNames == InitValidation(NameDtos, Clocks)

SpecNames == InitNames /\ [][Validate]_vars

\* The string that writes year y, month m, day d as YYYY-MM-DD, whether or
\* not such a day exists.
Iso(y, m, d) == Pad(y, 4) \o <<"-">> \o Pad(m, 2) \o <<"-">> \o Pad(d, 2)

\* Birth dates, and employment dates on either side of their 15th
\* anniversaries; one string of each that is no date.
AgeDtos ==
  LET births ==
        {Iso(2010, 1, 1), Iso(2010, 6, 15), Iso(2004, 2, 29),
         Iso(2000, 12, 31), Iso(2010, 13, 1)}
      employed ==
        {Iso(2024, 1, 1), Iso(2025, 1, 1), Iso(2024, 12, 31),
         Iso(2025, 6, 14), Iso(2025, 6, 15), Iso(2025, 6, 16),
         Iso(2019, 2, 28), Iso(2019, 3, 1),
         Iso(2015, 12, 30), Iso(2015, 12, 31), Iso(2016, 1, 1),
         Iso(2009, 1, 1), Iso(2025, 2, 30)}
  IN {[BASE EXCEPT !.birthDate = Str(b), !.employmentDate = Str(e)] :
        b \in births, e \in employed}

InitAge == InitValidation(AgeDtos, Clocks)

SpecAge == InitAge /\ [][Validate]_vars

\* Strings of the shape YYYY-MM-DD with months 00..13 and days 00..32 in
\* leap and common years, and strings of another shape.
DateDtos ==
  LET samples ==
        {Iso(y, m, d) : y \in {50, 1900, 1990, 2000, 2020, 2023},
                        m \in {0, 1, 2, 4, 12, 13},
                        d \in {0, 1, 28, 29, 30, 31, 32}}
          \cup { <<"2", "0", "2", "0", "-", "1", "-", "0", "1">>,
                 <<"2", "0", "2", "0", "0", "1", "0", "1">>,
                 <<"2", "0", "2", "0", "/", "0", "1", "/", "0", "1">>,
                 <<"0", "1", "-", "0", "1", "-", "2", "0", "2", "0">>,
                 Iso(2020, 1, 1) \o <<"T">>, <<" ">> \o Iso(2020, 1, 1),
                 <<"t", "o", "d", "a", "y">> }
  IN {[BASE EXCEPT !.birthDate = Str(s)] : s \in samples}
       \cup {[BASE EXCEPT !.employmentDate = Str(s)] : s \in samples}

InitDates == InitValidation(DateDtos, Clocks)

SpecDates == InitDates /\ [][Validate]_vars

\* ---------------------------------------------------------- arithmetic
max(a, b) == IF a >= b THEN a ELSE b
min(a, b) == IF a <= b THEN a ELSE b

\* Number(v) || 1
OrOne(n) == IF n = 0 THEN 1 ELSE n

\* Math.ceil that rounds down.
ceil_floor(a, b) == a \div b

\* Math.ceil(a / b), b >= 1
ceil(a, b) == (a + b - 1) \div b

\* ------------------------------------------------------- employee list
\* String(s || '').replace(/\D+/g, '')
_digits(s) == SelectSeq(s, IsDigit)

\* String(s || '').toLowerCase()
_norm(s) == toLowerCase(s)

\* String.prototype.includes
includes(s, part) ==
  \E i \in 0..(Len(s) - Len(part)) : SubSeq(s, i + 1, i + Len(part)) = part

\* a <= b on strings: by UTF-16 code units, a prefix before what it begins.
\* Of the code units only the order matters: "-" comes before the digits.
RECURSIVE lessOrEqual(_, _)
lessOrEqual(a, b) ==
  LET units == <<"-", "0", "1", "2", "3", "4", "5", "6", "7", "8", "9">>
      unit(c) == CHOOSE n \in 1..Len(units) : units[n] = c
  IN IF a = <<>> THEN TRUE
     ELSE IF b = <<>> THEN FALSE
     ELSE IF Head(a) = Head(b) THEN lessOrEqual(Tail(a), Tail(b))
     ELSE unit(Head(a)) < unit(Head(b))

\* _inRange in which the bounds themselves are outside the range.
_inRange_exclusive(val, from, to) ==
  /\ from = <<>> \/ (lessOrEqual(from, val) /\ from # val)
  /\ to = <<>> \/ (lessOrEqual(val, to) /\ to # val)

_inRange(val, from, to) ==
  /\ from = <<>> \/ lessOrEqual(from, val)
  /\ to = <<>> \/ lessOrEqual(val, to)

\* The _filtered getter, over all() of the store, the query and the filters.
_filtered(emps, query, F) ==
  LET q == _norm(query)
      searched(e) ==
        <<e.firstName, e.lastName, e.email, e.phone, e.department, e.position>>
      hit(e) ==
        q = <<>> \/ \E i \in 1..6 : includes(_norm(searched(e)[i]), q)
      pass(e) ==
        /\ ~(F.firstName # <<>>
               /\ ~includes(_norm(e.firstName), _norm(F.firstName)))
        /\ ~(F.lastName # <<>>
               /\ ~includes(_norm(e.lastName), _norm(F.lastName)))
        /\ ~(F.email # <<>> /\ ~includes(_norm(e.email), _norm(F.email)))
        /\ ~(F.phone # <<>> /\ ~includes(_digits(e.phone), _digits(F.phone)))
        /\ ~(F.department # <<>> /\ e.department # F.department)
        /\ ~(F.position # <<>> /\ e.position # F.position)
        /\ ~((F.empFrom # <<>> \/ F.empTo # <<>>)
               /\ ~_inRange(e.employmentDate, F.empFrom, F.empTo))
        /\ ~((F.birthFrom # <<>> \/ F.birthTo # <<>>)
               /\ ~_inRange(e.birthDate, F.birthFrom, F.birthTo))
  IN SelectSeq(SelectSeq(emps, hit), pass)

\* The filters of the constructor and of _clearFilters.
NoFilters ==
  [firstName |-> <<>>, lastName |-> <<>>, email |-> <<>>, phone |-> <<>>,
   department |-> <<>>, position |-> <<>>, empFrom |-> <<>>, empTo |-> <<>>,
   birthFrom |-> <<>>, birthTo |-> <<>>]

\* get _effectivePageSize: four cards a page, pageSize table rows
_effectivePageSize(c) == IF c.view = "list" THEN 4 ELSE c.pageSize

\* Array.prototype.slice(a, b)
slice(items, a, b) ==
  LET n == Len(items)
      from == IF a < 0 THEN max(n + a, 0) ELSE min(a, n)
      to == IF b < 0 THEN max(n + b, 0) ELSE min(b, n)
  IN SubSeq(items, from + 1, to)

_slice(items, size, page) ==
  LET s == max(1, OrOne(size))
      start == (page - 1) * s
  IN slice(items, start, start + s)

\* render(): the component shows the page of this._filtered that the state
\* it has now gives.
render(emps, c) ==
  LET filtered == _filtered(emps, c.q, c.filters)
  IN [c EXCEPT !.shown = filtered,
               !.pageItems = _slice(filtered, _effectivePageSize(c), c.page)]

\* updated(changed), after view, q, filters, page or pageSize has changed
updated(emps, c) ==
  LET size == _effectivePageSize(c)
      totalPages ==
        max(1, ceil(Len(_filtered(emps, c.q, c.filters)), size))
  IN [c EXCEPT !.page = min(max(1, c.page), totalPages)]

\* The update cycle that a changed property starts: render, updated(), and
\* once more when updated() has moved the page.
performUpdate(emps, c) == render(emps, updated(emps, c))

\* The list after its constructor and first render over the collection emps.
Mount(emps) ==
  render(emps, [q |-> <<>>, page |-> 1, view |-> "table", pageSize |-> 10,
                filters |-> NoFilters, selected |-> <<>>,
                confirming |-> FALSE, shown |-> <<>>, pageItems |-> <<>>])

_setQ(value) ==
  /\ list' = <<render(employees, [list[1] EXCEPT !.q = value, !.page = 1])>>
  /\ UNCHANGED <<storeVars, bootVars, adapterVars, validationVars, uiVars>>

_setText(k, value) ==
  /\ list' = <<render(employees,
                      [list[1] EXCEPT !.filters[k] = _norm(value), !.page = 1])>>
  /\ UNCHANGED <<storeVars, bootVars, adapterVars, validationVars, uiVars>>

_setDate(k, value) ==
  /\ list' = <<render(employees,
                      [list[1] EXCEPT !.filters[k] = value, !.page = 1])>>
  /\ UNCHANGED <<storeVars, bootVars, adapterVars, validationVars, uiVars>>

_setPick(k, value) ==
  /\ list' = <<render(employees,
                      [list[1] EXCEPT !.filters[k] = value, !.page = 1])>>
  /\ UNCHANGED <<storeVars, bootVars, adapterVars, validationVars, uiVars>>

_clearFilters ==
  /\ list' = <<render(employees,
                      [list[1] EXCEPT !.filters = NoFilters, !.page = 1])>>
  /\ UNCHANGED <<storeVars, bootVars, adapterVars, validationVars, uiVars>>

\* The delete button of a row of the page, with the confirmation accepted:
\* remove(id) on the store, whose notification makes the list render again.
\* A store notification changes no property of the list, so updated() leaves
\* the page alone.
_onDelete(id) ==
  /\ \E i \in 1..Len(list[1].pageItems) : list[1].pageItems[i].id = id
  /\ Remove(id)
  /\ list' = <<render(employees', list[1])>>
  /\ UNCHANGED <<bootVars, adapterVars, validationVars, uiVars>>

\* The two employees of the list's filter test.
ROWS ==
  << [id |-> "1",
       firstName |-> <<"A", "d", "a">>,
       lastName |-> <<"L", "o", "v", "e", "l", "a", "c", "e">>,
       employmentDate |-> <<"2", "0", "1", "0", "-", "0", "1", "-", "0", "2">>,
       birthDate |-> <<"1", "9", "8", "0", "-", "1", "2", "-", "1", "1">>,
       phone |-> <<"+", "9", "0", " ", "5", "5", "5", " ", "1", "1", "1", " ",
                 "2", "2", " ", "3", "3">>,
       email |-> <<"a", "d", "a", "@", "i", "n", "g", ".", "c", "o", "m">>,
       department |-> <<"T", "e", "c", "h">>,
       position |-> <<"S", "e", "n", "i", "o", "r">>],
     [id |-> "2",
       firstName |-> <<"G", "r", "a", "c", "e">>,
       lastName |-> <<"H", "o", "p", "p", "e", "r">>,
       employmentDate |-> <<"2", "0", "1", "5", "-", "0", "5", "-", "0", "6">>,
       birthDate |-> <<"1", "9", "8", "5", "-", "0", "6", "-", "0", "9">>,
       phone |-> <<"+", "9", "0", " ", "5", "5", "5", " ", "9", "9", "9", " ",
                 "8", "8", " ", "7", "7">>,
       email |-> <<"g", "r", "a", "c", "e", "@", "i", "n", "g", ".", "c", "o", "m">>,
       department |-> <<"A", "n", "a", "l", "y", "t", "i", "c", "s">>,
       position |-> <<"J", "u", "n", "i", "o", "r">>] >>

\* The list mounted over a store that holds ROWS, hydrated and durable.
InitList ==
  /\ Ready /\ AdapterIdle /\ ValidationIdle
  /\ employees = ROWS
  /\ listeners = {}
  /\ seen = [c \in Callbacks |-> NotCalled]
  /\ lastOp = [op |-> "init", arg |-> NoArg, id |-> Undefined,
               threw |-> FALSE, error |-> NoError, ret |-> Undefined,
               streak |-> 1]
  /\ awaiting = <<>> /\ txq = <<>>
  /\ kvAge = 0 /\ recent = <<ROWS>>
  /\ kv = [k \in Keys |-> <<Stored(ROWS, VERSION)>>]
  /\ UiIdle
  /\ list = <<Mount(ROWS)>>

\* What the user types or picks in the search box and the filter panel, and
\* the rows whose delete button is pressed.
NextList ==
  LET queries == {<<>>, <<"A", "D", "A">>, <<"9", " ", "8", "8">>}
      texts ==
        [firstName |-> {<<>>, <<"A", "d", "a">>},
         lastName |-> {<<>>, <<"L", "O", "V", "E">>},
         email |-> {<<>>, <<"A", "D", "A", "@", "I", "N", "G", ".", "C", "O",
                            "M">>},
         phone |-> {<<>>, <<"+", "5", "5", "5", " ", "1", "1", "1">>}]
      picks ==
        [department |-> {<<>>, ROWS[1].department},
         position |-> {<<>>, ROWS[1].position}]
      dates ==
        [empFrom |-> {<<>>, ROWS[2].employmentDate},
         empTo |-> {<<>>, ROWS[1].employmentDate},
         birthFrom |-> {<<>>, ROWS[2].birthDate},
         birthTo |-> {<<>>, ROWS[1].birthDate}]
  IN \/ \E value \in queries : _setQ(value)
     \/ \E k \in DOMAIN texts : \E value \in texts[k] : _setText(k, value)
     \/ \E k \in DOMAIN dates : \E value \in dates[k] : _setDate(k, value)
     \/ \E k \in DOMAIN picks : \E value \in picks[k] : _setPick(k, value)
     \/ _clearFilters
     \/ Settled /\ \E id \in {ROWS[1].id, ROWS[2].id} : _onDelete(id)
     \/ DbResolved /\ UNCHANGED otherVars
     \/ TxComplete /\ UNCHANGED otherVars

SpecList == InitList /\ [][NextList]_vars

\* ---------------------------------------------------------- x-pagination
\* The _pages getter of an x-pagination with the properties p.
_pages(p) ==
  LET size == max(1, OrOne(p.pageSize))
      totalPages == max(1, ceil(p.total, size))
      cur == min(max(1, OrOne(p.page)), totalPages)
      span == max(1, OrOne(p.maxButtons))
      half == span \div 2
      start == max(1, cur - half)
      end == min(totalPages, start + span - 1)
  IN [totalPages |-> totalPages, cur |-> cur,
      start |-> IF end - start + 1 < span THEN max(1, end - span + 1)
                ELSE start,
      end |-> end]

\* _emit(page): the page-change event dispatched, << >> when there is none.
_emit(p, page) ==
  LET next == min(max(1, OrOne(page)), _pages(p).totalPages)
  IN IF next = p.page THEN <<>> ELSE <<[page |-> next]>>

\* An x-pagination on its own, as its tests mount it: properties given by
\* the host, nav what its last render computed, asked and event the argument
\* and the outcome of the last _emit.
InitPagination ==
  /\ StoreUnused /\ ValidationIdle /\ ListIdle
  /\ form = <<>> /\ search = <<>> /\ css = <<>> /\ header = <<>>
  /\ \E page \in {1, 999}, total \in {0, 1, 10, 11, 33, 100} :
       LET p == [page |-> page, total |-> total, pageSize |-> 10,
                 maxButtons |-> 7]
       IN pager = <<[p |-> p, nav |-> _pages(p), asked |-> <<>>,
                     event |-> <<>>]>>

NextPagination ==
  LET rest == <<storeVars, bootVars, adapterVars, validationVars, listVars,
                form, search, css, header>>
      \* the host sets a property; the element renders again
      set(p) == /\ pager' = <<[p |-> p, nav |-> _pages(p), asked |-> <<>>,
                              event |-> <<>>]>>
                /\ UNCHANGED rest
  IN \/ \E page \in {0 - 1, 0, 1, 2, 4, 999} :
          set([pager[1].p EXCEPT !.page = page])
     \/ \E size \in {0, 1, 4, 10, 20} :
          set([pager[1].p EXCEPT !.pageSize = size])
     \* a button of the element, or a caller, asks for a page
     \/ \E page \in {0 - 1, 0, 1, 2, 3, 4, 5, 999} :
          /\ pager' = <<[pager[1] EXCEPT !.asked = <<page>>,
                                         !.event = _emit(pager[1].p, page)]>>
          /\ UNCHANGED rest

SpecPagination == InitPagination /\ [][NextPagination]_vars

\* ------------------------------------------- employee list: pages, rows
\* The view toggle buttons of the header.
ViewToggle(v) ==
  /\ list' = <<performUpdate(employees,
                             [list[1] EXCEPT !.view = v, !.page = 1])>>
  /\ UNCHANGED <<storeVars, bootVars, adapterVars, validationVars, uiVars>>

\* The host sets the property view, pageSize or page of the element.
SetProperty(name, value) ==
  /\ list' = <<performUpdate(employees, [list[1] EXCEPT ![name] = value])>>
  /\ UNCHANGED <<storeVars, bootVars, adapterVars, validationVars, uiVars>>

\* A button of the x-pagination that the list rendered asks for a page; the
\* list takes the page of the page-change event it dispatches.
PageChange(asked) ==
  LET c == list[1]
      event == _emit([page |-> c.page, total |-> Len(c.shown),
                      pageSize |-> _effectivePageSize(c), maxButtons |-> 7],
                     asked)
  IN /\ event # <<>>
     /\ list' = <<performUpdate(employees, [c EXCEPT !.page = event[1].page])>>
     /\ UNCHANGED <<storeVars, bootVars, adapterVars, validationVars, uiVars>>

\* Set.prototype.add and delete, the set kept in insertion order
add(set, id) ==
  IF \E i \in 1..Len(set) : set[i] = id THEN set ELSE Append(set, id)

delete(set, id) == SelectSeq(set, LAMBDA x : x # id)

\* The checkbox of a row of the table.
toggleRow(id, checked) ==
  /\ list[1].view = "table"
  /\ \E i \in 1..Len(list[1].pageItems) : list[1].pageItems[i].id = id
  /\ list' = <<render(employees,
                      [list[1] EXCEPT !.selected =
                         IF checked THEN add(@, id) ELSE delete(@, id)])>>
  /\ UNCHANGED <<storeVars, bootVars, adapterVars, validationVars, uiVars>>

\* The checkbox of the table header: every row of the page, in its order.
toggleAll(checked) ==
  LET RECURSIVE each(_, _)
      each(set, items) ==
        IF items = <<>> THEN set
        ELSE each(IF checked THEN add(set, Head(items).id)
                  ELSE delete(set, Head(items).id), Tail(items))
  IN /\ list[1].view = "table"
     /\ list' = <<render(employees,
                         [list[1] EXCEPT !.selected =
                            each(@, list[1].pageItems)])>>
     /\ UNCHANGED <<storeVars, bootVars, adapterVars, validationVars, uiVars>>

\* bulkDelete up to its await: the button is rendered when more than one id
\* is selected, and the handler returns when fewer than two are. The
\* removes of one bulk delete are writes in flight together.
bulkDelete ==
  /\ list[1].view = "table"
  /\ Len(list[1].selected) > 1 /\ ~(Len(list[1].selected) < 2)
  /\ InFlight + Len(list[1].selected) <= MaxPending
  /\ list' = <<[list[1] EXCEPT !.confirming = TRUE]>>
  /\ UNCHANGED <<storeVars, bootVars, adapterVars, validationVars, uiVars>>

\* The collections that remove(id) for each id in turn leaves.
removeEach_headOnly(emps, ids) ==
  IF ids = <<>> THEN <<>>
  ELSE [i \in 1..Len(ids) |-> remove(emps, Head(ids))]

RECURSIVE removeEach(_, _)
removeEach(emps, ids) ==
  IF ids = <<>> THEN <<>>
  ELSE <<remove(emps, Head(ids))>>
         \o removeEach(remove(emps, Head(ids)), Tail(ids))

\* bulkDelete from the answer of the dialog on: nothing when it is cancelled,
\* else remove(id) for every selected id, each a set() with its write, then
\* the selection cleared and an update requested.
bulkDeleteAnswered(ok) ==
  /\ list[1].confirming
  /\ IF ~ok
     THEN /\ list' = <<[list[1] EXCEPT !.confirming = FALSE]>>
          /\ UNCHANGED storeVars
     ELSE LET ids == list[1].selected
              done == removeEach(employees, ids)
              k == Len(done)
              aged(w) == [i \in 1..Len(w) |-> [w[i] EXCEPT !.age = @ + k]]
          IN /\ employees' = done[k]
             /\ seen' = setState(employees, done[k], listeners).seen
             /\ awaiting' = aged(awaiting)
                  \o [i \in 1..k |-> [setItem(done[i]) EXCEPT !.age = k - i]]
             /\ txq' = aged(txq)
             /\ kvAge' = kvAge + k
             /\ recent' = [i \in 1..k |-> done[k + 1 - i]] \o recent
             /\ lastOp' = [op |-> "remove", arg |-> NoArg, id |-> ids[k],
                           threw |-> FALSE, error |-> NoError,
                           ret |-> Undefined, streak |-> 1]
             /\ list' = <<render(done[k], [list[1] EXCEPT
                                             !.selected = <<>>,
                                             !.confirming = FALSE])>>
             /\ UNCHANGED <<listeners, kv>>
  /\ UNCHANGED <<bootVars, adapterVars, validationVars, uiVars>>

\* The employees the list's tests seed the store with, their strings cut
\* short.
makeSeed(count) ==
  [i \in 1..count |->
     [id |-> DigitChars[i + 1],
      firstName |-> <<"N", DigitChars[i + 1]>>,
      lastName |-> <<"S", DigitChars[i + 1]>>,
      employmentDate |-> Iso(2010, i, 1),
      birthDate |-> Iso(1980, i, 2),
      phone |-> <<"5", "0", DigitChars[i + 1]>>,
      email |-> <<"u", DigitChars[i + 1], "@", "x">>,
      department |-> IF i % 2 = 1 THEN <<"T", "e", "c", "h">> ELSE <<"A", "n", "a", "l", "y", "t", "i", "c", "s">>,
      position |-> <<<<"J", "u", "n", "i", "o", "r">>, <<"M", "e", "d", "i", "o", "r">>, <<"S", "e", "n", "i", "o", "r">>>>[(i % 3) + 1]]]

\* The list mounted over a store that holds rows, hydrated and durable.
TableOver(rows) ==
  /\ Ready /\ AdapterIdle /\ ValidationIdle /\ UiIdle
  /\ employees = rows
  /\ listeners = {}
  /\ seen = [c \in Callbacks |-> NotCalled]
  /\ lastOp = [op |-> "init", arg |-> NoArg, id |-> Undefined,
               threw |-> FALSE, error |-> NoError, ret |-> Undefined,
               streak |-> 1]
  /\ awaiting = <<>> /\ txq = <<>>
  /\ kvAge = 0 /\ recent = <<rows>>
  /\ kv = [k \in Keys |-> <<Stored(rows, VERSION)>>]
  /\ list = <<Mount(rows)>>

InitPages == TableOver(makeSeed(5))

\* Searching, filtering, paging, switching the view and deleting rows.
NextPages ==
  \/ \E value \in {<<>>, <<"T", "e", "c", "h">>} : _setQ(value)
  \/ \E value \in {<<>>, <<"N">>} : _setText("firstName", value)
  \/ \E value \in {<<>>, Iso(2010, 2, 1)} : _setDate("empFrom", value)
  \/ \E value \in {<<>>, <<"T", "e", "c", "h">>} : _setPick("department", value)
  \/ _clearFilters
  \/ \E v \in {"table", "list"} : ViewToggle(v)
  \/ \E v \in {"table", "list"} : SetProperty("view", v)
  \/ \E n \in {2, 10} : SetProperty("pageSize", n)
  \/ \E asked \in {0, 1, 2, 3, 999} : PageChange(asked)
  \/ Settled /\ \E i \in 1..Len(employees) : _onDelete(employees[i].id)
  \/ DbResolved /\ UNCHANGED otherVars
  \/ TxComplete /\ UNCHANGED otherVars

SpecPages == InitPages /\ [][NextPages]_vars

InitSelection == TableOver(makeSeed(3))

\* Selecting rows, paging, deleting rows one by one and in bulk. The dialog
\* of bulkDelete covers the page while it is open.
NextSelection ==
  \/ ~list[1].confirming
       /\ \E i \in 1..Len(employees), checked \in BOOLEAN :
            toggleRow(employees[i].id, checked)
  \/ ~list[1].confirming /\ \E checked \in BOOLEAN : toggleAll(checked)
  \/ ~list[1].confirming /\ \E n \in {2, 10} : SetProperty("pageSize", n)
  \/ ~list[1].confirming /\ \E asked \in {1, 2} : PageChange(asked)
  \/ ~list[1].confirming /\ Settled
       /\ \E i \in 1..Len(employees) : _onDelete(employees[i].id)
  \/ ~list[1].confirming /\ bulkDelete
  \/ \E ok \in BOOLEAN : bulkDeleteAnswered(ok)
  \/ DbResolved /\ UNCHANGED otherVars
  \/ TxComplete /\ UNCHANGED otherVars

SpecSelection == InitSelection /\ [][NextSelection]_vars

\* ========================================================= employee form
\* The form is a record: the id it edits (Undefined for a new employee), where
\* _submit stands (idle, or waiting for the dialog), the DTO it collected, what
\* validateImpl returned, the dialog's answer, the errors it shows, the calls
\* of upsert the submit made, and whether it navigated to the list.

\* An error the form shows as a text of the dictionary.
Text(key) == Err("string", key, <<>>)

\* _collect(): names and phone trimmed, email trimmed and lower-cased.
_collect(fields, employeeId) ==
  [id |-> employeeId,
   firstName |-> Str(trim(OrEmpty(fields.firstName))),
   lastName |-> Str(trim(OrEmpty(fields.lastName))),
   employmentDate |-> Str(OrEmpty(fields.employmentDate)),
   birthDate |-> Str(OrEmpty(fields.birthDate)),
   phone |-> Str(trim(OrEmpty(fields.phone))),
   email |-> Str(toLowerCase(trim(OrEmpty(fields.email)))),
   department |-> Str(OrEmpty(fields.department)),
   position |-> Str(OrEmpty(fields.position))]

\* What the store keeps of a DTO in this model: id, email, and a name that
\* stands for the other fields.
Record(d) ==
  [id |-> d.id, email |-> d.email.s,
   name |-> IF d.firstName.s = <<"A", "l", "i", "c", "e">> THEN "x" ELSE "y"]

_submit_unconfirmed(errors, isEdit) ==
  IF errors # <<>> THEN "show" ELSE "save"

\* The way _submit takes after validateImpl returned: show the errors, ask
\* for confirmation (edit), or save.
_submit(errors, isEdit) ==
  IF errors # <<>> THEN "show"
  ELSE IF isEdit THEN "confirm"
  ELSE "save"

caught_unknown(r) ==
  IF r.threw THEN <<Text("errors.unknown")>> ELSE <<>>

\* The errors the catch of _submit leaves for the outcome r of upsert.
caught(r) ==
  IF r.threw
  THEN <<IF r.error.message = "UNIQUE_EMAIL" THEN Text("errors.uniqueEmail")
         ELSE Text("errors.unknown")>>
  ELSE <<>>

\* genId() of the store: an id no record has.
GenIds == {"i3"} \ {employees[i].id : i \in 1..Len(employees)}

\* try { upsert(dto); _cancel(e) } catch (err) { errors = [...] }
Save(f, d) ==
  \E gid \in GenIds :
    LET r == upsert(employees, Record(d), gid) IN
      /\ Upsert(Record(d), gid)
      /\ form' = <<[f EXCEPT !.pc = "idle",
                             !.upserts = @ + 1,
                             !.errors = caught(r),
                             !.navigated = ~r.threw]>>

\* The submit button: _submit up to its first await or its end.
Submit(fields) ==
  /\ form # <<>> /\ form[1].pc = "idle" /\ ~form[1].navigated
  /\ LET d == _collect(fields, form[1].employeeId)
         e == validateEmployee(d)
         f == [form[1] EXCEPT !.errors = <<>>, !.dto = <<d>>,
                              !.validated = e, !.answer = "none",
                              !.upserts = 0]
         way == _submit(e, form[1].employeeId # Undefined)
     IN CASE way = "show" ->
               /\ form' = <<[f EXCEPT !.errors = e]>>
               /\ UNCHANGED storeVars
          [] way = "confirm" ->
               /\ form' = <<[f EXCEPT !.pc = "confirm"]>>
               /\ UNCHANGED storeVars
          [] OTHER -> Save(f, d)
  /\ UNCHANGED <<bootVars, adapterVars, validationVars, listVars,
                 pager, search, css, header>>

\* The dialog of an edit resolves with ok.
Confirmed(ok) ==
  /\ form # <<>> /\ form[1].pc = "confirm"
  /\ LET f == [form[1] EXCEPT !.answer = IF ok THEN "yes" ELSE "no"] IN
       IF ok THEN Save(f, f.dto[1])
       ELSE /\ form' = <<[f EXCEPT !.pc = "idle"]>>
            /\ UNCHANGED storeVars
  /\ UNCHANGED <<bootVars, adapterVars, validationVars, listVars,
                 pager, search, css, header>>

NewForm(employeeId) ==
  [employeeId |-> employeeId, pc |-> "idle", dto |-> <<>>,
   validated |-> NotValidated, answer |-> "none", errors |-> <<>>,
   upserts |-> 0, navigated |-> FALSE]

FormRows ==
  << [id |-> "i1", email |-> <<"a", "@", "b", ".", "c", "o">>, name |-> "x"],
     [id |-> "i2", email |-> <<"c", "@", "b", ".", "c", "o">>, name |-> "y"] >>

\* What the user typed: the valid fields, the email of the second employee
\* in capitals between blanks, an email nobody has with a shorter first
\* name, fields that break every rule, a phone too short, no position.
FormFields ==
  { BASE,
    [BASE EXCEPT !.email = Str(<<" ", "C", "@", "B", ".", "C", "O", " ">>)],
    [BASE EXCEPT !.email = Str(<<"e", "@", "b", ".", "c", "o">>),
                 !.firstName = Str(<<" ", "A", "l", "i", " ">>)],
    BAD,
    [BASE EXCEPT !.phone = Str(<<"1", "2", "3">>)],
    [BASE EXCEPT !.position = Str(<<>>)] }

InitForm ==
  /\ Ready /\ AdapterIdle /\ ListIdle
  /\ clock \in Clocks /\ dto = <<>> /\ errs = <<>>
  /\ employees = FormRows
  /\ listeners = {}
  /\ seen = [c \in Callbacks |-> NotCalled]
  /\ lastOp = [op |-> "init", arg |-> NoArg, id |-> Undefined,
               threw |-> FALSE, error |-> NoError, ret |-> Undefined,
               streak |-> 1]
  /\ awaiting = <<>> /\ txq = <<>>
  /\ kvAge = 0 /\ recent = <<FormRows>>
  /\ kv = [k \in Keys |-> <<Stored(FormRows, VERSION)>>]
  /\ pager = <<>> /\ search = <<>> /\ css = <<>> /\ header = <<>>
  /\ \E employeeId \in {Undefined, "i1", "i2"} :
       form = <<NewForm(employeeId)>>

NextForm ==
  \/ \E fields \in FormFields : Submit(fields)
  \/ \E ok \in BOOLEAN : Confirmed(ok)
  \/ DbResolved /\ UNCHANGED otherVars
  \/ TxComplete /\ UNCHANGED otherVars

SpecForm == InitForm /\ [][NextForm]_vars

\* ========================================================== search input
\* The input is a record: its value, the timer it holds in _timer, the
\* timers of the window that are pending, the time, the events it has
\* dispatched, and, for the properties, the last input of every burst.
Debounce == 250

\* The time moves in steps of a fifth of the debounce, up to three of them.
Tick == Debounce \div 5
Horizon == 3 * Debounce

Due(s) == {i \in 1..Len(s.timers) : s.timers[i].due <= s.now}

clearTimeout_never(timers, id) == timers

clearTimeout(timers, id) == SelectSeq(timers, LAMBDA x : x.id # id)

\* setTimeout returns an id no pending timer has.
setTimeout(timers, due) ==
  LET id == CHOOSE n \in 1..(Len(timers) + 1) :
              \A i \in 1..Len(timers) : timers[i].id # n
  IN [id |-> id, timers |-> Append(timers, [id |-> id, due |-> due])]

\* The last input of every burst: an input closer than the debounce to the
\* one before it continues the burst, any other starts one.
Burst(ends, at, value) ==
  IF ends # <<>> /\ at - ends[Len(ends)].at < Debounce
  THEN [ends EXCEPT ![Len(ends)] = [at |-> at, value |-> value]]
  ELSE Append(ends, [at |-> at, value |-> value])

\* _onInput(e): a callback that is due runs before the input is handled.
_onInput(value) ==
  /\ search # <<>> /\ Due(search[1]) = {}
  /\ LET s == search[1]
         t == setTimeout(clearTimeout(s.timers, s._timer), s.now + s.debounce)
     IN search' = <<[s EXCEPT !.value = value,
                              !._timer = t.id,
                              !.timers = t.timers,
                              !.ends = Burst(@, s.now, value)]>>
  /\ UNCHANGED <<storeVars, bootVars, adapterVars, validationVars, listVars,
                 pager, form, css, header>>

\* The callback of a timer that is due: search-change with the value the
\* input has now.
TimerFires ==
  /\ search # <<>> /\ Due(search[1]) # {}
  /\ LET s == search[1]
         i == CHOOSE k \in Due(s) : \A j \in Due(s) : k <= j
     IN search' = <<[s EXCEPT
                       !.timers = SelectSeq(@, LAMBDA x : x # s.timers[i]),
                       !.events = Append(@, [at |-> s.now,
                                             value |-> s.value])]>>
  /\ UNCHANGED <<storeVars, bootVars, adapterVars, validationVars, listVars,
                 pager, form, css, header>>

\* Time passes once the callbacks that are due have run.
Advance ==
  /\ search # <<>> /\ Due(search[1]) = {}
  /\ search[1].now < Horizon
  /\ search' = <<[search[1] EXCEPT !.now = @ + Tick]>>
  /\ UNCHANGED <<storeVars, bootVars, adapterVars, validationVars, listVars,
                 pager, form, css, header>>

InitSearch ==
  /\ StoreUnused /\ ValidationIdle /\ ListIdle
  /\ pager = <<>> /\ form = <<>> /\ css = <<>> /\ header = <<>>
  /\ search = <<[value |-> "", debounce |-> Debounce, _timer |-> 0,
                 timers |-> <<>>, now |-> 0, events |-> <<>>,
                 ends |-> <<>>]>>

NextSearch ==
  \/ \E value \in {"a", "ab"} : _onInput(value)
  \/ TimerFires
  \/ Advance

SpecSearch == InitSearch /\ [][NextSearch]_vars

\* ================================================================ adoptCss
\* Constructable stylesheets are supported. css holds the cache of the
\* module (per href whether a text is cached, and the sheet cached, if any),
\* the calls of adoptCss with the place each has reached, the sheets every
\* root has adopted, and, for the properties, the fetches made per href and
\* the hrefs clearCssCache has been called for.
Hrefs == {"A.css", "B.css"}
Roots == {"r1", "r2"}
CssCalls == {"k1", "k2", "k3"}

NoSheet == [href |-> "", n |-> 0]
NoEntry == [text |-> FALSE, sheet |-> NoSheet]

\* A call that has not been made.
NoCall == [pc |-> "none", root |-> "", href |-> "", cached |-> NoEntry,
           sheet |-> NoSheet]

\* new CSSStyleSheet(): an object distinct from every sheet made before.
NewSheet(c, href) == [href |-> href, n |-> c.made[href] + 1]

\* adoptCss(root, href) up to its first await: getSheet returns the cached
\* sheet, or getText returns the cached text, or the file is fetched.
adoptCss(c, k, root, href) ==
  LET cached == c.cache[href]
      call == [pc |-> "none", root |-> root, href |-> href,
               cached |-> cached, sheet |-> NoSheet]
  IN IF cached.sheet # NoSheet
     THEN [c EXCEPT !.calls[k] = [call EXCEPT !.pc = "adopt",
                                              !.sheet = cached.sheet]]
     ELSE IF cached.text
     THEN [c EXCEPT !.calls[k] = [call EXCEPT !.pc = "replace",
                                              !.sheet = NewSheet(c, href)],
                    !.made[href] = @ + 1]
     ELSE [c EXCEPT !.calls[k] = [call EXCEPT !.pc = "fetch"],
                    !.fetches[href] = @ + 1]

\* A component calls adoptCss.
AdoptCss(k, root, href) ==
  /\ css # <<>> /\ css[1].calls[k].pc = "none"
  /\ css' = <<adoptCss(css[1], k, root, href)>>
  /\ UNCHANGED <<storeVars, bootVars, adapterVars, validationVars, listVars,
                 pager, form, search, header>>

\* getText after fetch and res.text(): a response that is not ok throws,
\* else the text is cached over the entry read before the fetch, and
\* getSheet makes a sheet and starts replace(text).
Fetched(k, ok) ==
  /\ css # <<>> /\ css[1].calls[k].pc = "fetch"
  /\ LET c == css[1]
         call == c.calls[k]
     IN css' = <<
          IF ~ok THEN [c EXCEPT !.calls[k].pc = "threw"]
          ELSE [c EXCEPT !.cache[call.href] = [call.cached EXCEPT !.text = TRUE],
                         !.calls[k].pc = "replace",
                         !.calls[k].sheet = NewSheet(c, call.href),
                         !.made[call.href] = @ + 1] >>
  /\ UNCHANGED <<storeVars, bootVars, adapterVars, validationVars, listVars,
                 pager, form, search, header>>

\* getSheet after sheet.replace(text): the sheet is cached over the entry
\* read when getSheet started.
Replaced(k) ==
  /\ css # <<>> /\ css[1].calls[k].pc = "replace"
  /\ LET c == css[1]
         call == c.calls[k]
     IN css' = <<[c EXCEPT !.cache[call.href] = [text |-> TRUE,
                                                 sheet |-> call.sheet],
                           !.calls[k].pc = "adopt"]>>
  /\ UNCHANGED <<storeVars, bootVars, adapterVars, validationVars, listVars,
                 pager, form, search, header>>

\* adoptCss after getSheet: the sheet is adopted unless the root has it.
Adopted(k) ==
  /\ css # <<>> /\ css[1].calls[k].pc = "adopt"
  /\ LET c == css[1]
         call == c.calls[k]
         has == \E i \in 1..Len(c.adopted[call.root]) :
                  c.adopted[call.root][i] = call.sheet
     IN css' = <<[c EXCEPT !.adopted[call.root] =
                             IF has THEN @ ELSE Append(@, call.sheet),
                           !.calls[k].pc = "done"]>>
  /\ UNCHANGED <<storeVars, bootVars, adapterVars, validationVars, listVars,
                 pager, form, search, header>>

\* clearCssCache(href), and clearCssCache() when hrefs is every href.
clearCssCache(hrefs) ==
  /\ css # <<>>
  /\ LET c == css[1] IN
       css' = <<[c EXCEPT
                   !.cache = [h \in Hrefs |->
                                IF h \in hrefs THEN NoEntry ELSE c.cache[h]],
                   !.cleared = @ \cup hrefs]>>
  /\ UNCHANGED <<storeVars, bootVars, adapterVars, validationVars, listVars,
                 pager, form, search, header>>

InitCss ==
  /\ StoreUnused /\ ValidationIdle /\ ListIdle
  /\ pager = <<>> /\ form = <<>> /\ search = <<>> /\ header = <<>>
  /\ css = <<[cache |-> [h \in Hrefs |-> NoEntry],
              calls |-> [k \in CssCalls |-> NoCall],
              adopted |-> [r \in Roots |-> <<>>],
              made |-> [h \in Hrefs |-> 0],
              fetches |-> [h \in Hrefs |-> 0],
              cleared |-> {}]>>

NextCss ==
  \/ \E k \in CssCalls, root \in Roots, href \in Hrefs :
       AdoptCss(k, root, href)
  \/ \E k \in CssCalls, ok \in BOOLEAN : Fetched(k, ok)
  \/ \E k \in CssCalls : Replaced(k)
  \/ \E k \in CssCalls : Adopted(k)
  \/ \E hrefs \in {{"A.css"}, Hrefs} : clearCssCache(hrefs)

SpecCss == InitCss /\ [][NextCss]_vars

\* =============================================================== hr-header
\* The header is a record: whether it is connected, where firstUpdated
\* stands (not started, awaiting adoptCss, ended, rejected), whether
\* _onLangChanged is a listener of window, its lang and the lang of the
\* document. Its adoptCss is the call k1 for its shadow root r1.
NewHeader ==
  [connected |-> FALSE, pc |-> "none", listener |-> FALSE,
   lang |-> "en", docLang |-> "en"]

\* The header is put into the document; the first time its first update
\* runs and firstUpdated calls adoptCss.
Connected ==
  /\ header # <<>> /\ ~header[1].connected
  /\ IF header[1].pc = "none"
     THEN /\ header' = <<[header[1] EXCEPT !.connected = TRUE, !.pc = "css"]>>
          /\ css' = <<adoptCss(css[1], "k1", "r1", "A.css")>>
     ELSE /\ header' = <<[header[1] EXCEPT !.connected = TRUE]>>
          /\ UNCHANGED css
  /\ UNCHANGED <<storeVars, bootVars, adapterVars, validationVars, listVars,
                 pager, form, search>>

\* firstUpdated after its await: the listener is added, unless adoptCss
\* rejected.
firstUpdated ==
  /\ header # <<>> /\ header[1].pc = "css"
  /\ css[1].calls["k1"].pc \in {"done", "threw"}
  /\ header' = <<IF css[1].calls["k1"].pc = "done"
                 THEN [header[1] EXCEPT !.pc = "done", !.listener = TRUE]
                 ELSE [header[1] EXCEPT !.pc = "threw"]>>
  /\ UNCHANGED <<storeVars, bootVars, adapterVars, validationVars, listVars,
                 pager, form, search, css>>

disconnectedCallback ==
  /\ header # <<>> /\ header[1].connected
  /\ header' = <<[header[1] EXCEPT !.connected = FALSE, !.listener = FALSE]>>
  /\ UNCHANGED <<storeVars, bootVars, adapterVars, validationVars, listVars,
                 pager, form, search, css>>

\* The language of the document changes and i18n-changed is dispatched on
\* window: _onLangChanged runs if it is a listener.
LangChanged(lang) ==
  /\ header # <<>> /\ header[1].docLang # lang
  /\ header' = <<[header[1] EXCEPT
                    !.docLang = lang,
                    !.lang = IF header[1].listener THEN lang ELSE @]>>
  /\ UNCHANGED <<storeVars, bootVars, adapterVars, validationVars, listVars,
                 pager, form, search, css>>

InitHeader ==
  /\ StoreUnused /\ ValidationIdle /\ ListIdle
  /\ pager = <<>> /\ form = <<>> /\ search = <<>>
  /\ css = <<[cache |-> [h \in Hrefs |-> NoEntry],
              calls |-> [k \in CssCalls |-> NoCall],
              adopted |-> [r \in Roots |-> <<>>],
              made |-> [h \in Hrefs |-> 0],
              fetches |-> [h \in Hrefs |-> 0],
              cleared |-> {}]>>
  /\ header = <<NewHeader>>

\* The header next to another component (k2, root r2) that loads a sheet.
NextHeader ==
  \/ Connected
  \/ firstUpdated
  \/ disconnectedCallback
  \/ \E lang \in {"en", "tr"} : LangChanged(lang)
  \/ \E href \in Hrefs : AdoptCss("k2", "r2", href)
  \/ \E k \in {"k1", "k2"}, ok \in BOOLEAN : Fetched(k, ok)
  \/ \E k \in {"k1", "k2"} : Replaced(k)
  \/ \E k \in {"k1", "k2"} : Adopted(k)

SpecHeader == InitHeader /\ [][NextHeader]_vars

\* ======================================================== properties
\* Vocabulary of the properties, stated without the store's own helpers.
Fold(c) ==
  CASE c = "a" -> "A"
    [] c = "b" -> "B"
    [] OTHER -> c

SameIgnoringCase(a, b) ==
  /\ Len(a) = Len(b)
  /\ \A i \in 1..Len(a) : Fold(a[i]) = Fold(b[i])

\* s without its leading and trailing spaces
Strip(s) ==
  LET inked == {i \in 1..Len(s) : s[i] # " "}
  IN IF inked = {} THEN <<>>
     ELSE SubSeq(s, CHOOSE i \in inked : \A j \in inked : i <= j,
                    CHOOSE i \in inked : \A j \in inked : j <= i)

IsNormalized(s) ==
  /\ \A i \in 1..Len(s) : s[i] \notin {"A", "B"}
  /\ s = <<>> \/ (s[1] # " " /\ s[Len(s)] # " ")

Target(e, gid) == IF e.id = Undefined THEN gid ELSE e.id

Position(emps, id) ==
  IF \E i \in 1..Len(emps) : emps[i].id = id
  THEN CHOOSE i \in 1..Len(emps) : emps[i].id = id
  ELSE 0

\* Another record (a different id) of emps holds the email of e, compared
\* after trimming and without regard to case.
Conflict(emps, e, id) ==
  \E i \in 1..Len(emps) :
    /\ emps[i].id # id
    /\ SameIgnoringCase(Strip(emps[i].email), Strip(e.email))

\* The step is a call of upsert (of remove): lastOp' names its argument and
\* its target id.
IsUpsertStep == lastOp'.op = "upsert" /\ Upsert(lastOp'.arg, lastOp'.id)

IsRemoveStep == lastOp'.op = "remove" /\ Remove(lastOp'.id)

UniqueEmailError == [message |-> "UNIQUE_EMAIL", cause |-> [field |-> "email"]]

\* C1: after any sequence of upsert, remove and clearAll from the empty
\* store, no two records have emails that are equal ignoring case.
C1_EmailsDistinct ==
  \A i, j \in 1..Len(employees) :
    i # j => ~SameIgnoringCase(employees[i].email, employees[j].email)

\* C1 witness: two records are held and an upsert of a case variant of a
\* held email under the other id has just been rejected.
C1_Witness ==
  /\ Len(employees) = 2
  /\ lastOp.op = "upsert" /\ lastOp.threw
  /\ lastOp.arg.email = <<" ", "A", " ">>

\* C2: an upsert that meets a uniqueness violation throws the error
\* 'UNIQUE_EMAIL' with cause {field: 'email'} and leaves the collection
\* exactly as it was (same records, order and field values).
C2_RejectLeavesCollection ==
  [][LET e == lastOp'.arg
          gid == lastOp'.id
      IN IsUpsertStep
         => /\ Conflict(employees, e, Target(e, gid)) => lastOp'.threw
            /\ lastOp'.threw
                 => /\ lastOp'.error = UniqueEmailError
                    /\ employees' = employees]_vars

\* C2 witness: an upsert was rejected while the collection held a record.
C2_Witness ==
  /\ lastOp.op = "upsert" /\ lastOp.threw
  /\ lastOp.error = UniqueEmailError
  /\ Len(employees) >= 1

\* C3: upsert stores trim+lowercase of the supplied email, and it is
\* rejected exactly when a record with a different id holds the same
\* normalized email (so a record may take a case variant of its own email).
C3_NormalizeAndReject ==
  [][LET e == lastOp'.arg
          gid == lastOp'.id
      IN IsUpsertStep
         => /\ lastOp'.threw <=> Conflict(employees, e, Target(e, gid))
            /\ ~lastOp'.threw =>
                 LET stored == byId(employees', Target(e, gid)).email IN
                   /\ IsNormalized(stored)
                   /\ SameIgnoringCase(stored, Strip(e.email))]_vars

\* C3 witness: a record has just been upserted under its own id with a
\* case-and-space variant of an email while another record exists.
C3_Witness ==
  /\ lastOp.op = "upsert" /\ ~lastOp.threw
  /\ lastOp.arg.email = <<" ", "A", " ">>
  /\ Len(employees) = 2
  /\ byId(employees, lastOp.id).email = <<"a">>
  /\ Len(recent) = 2 /\ Len(recent[2]) = 2
  /\ byId(recent[2], lastOp.id).email = <<"a">>

\* C4: a successful upsert of an id already held replaces that record in
\* place (same position and id, same length, the others unchanged); of an id
\* not held (supplied or generated) it appends one record at the end; both
\* return the target id.
C4_ReplaceOrAppend ==
  [][LET e == lastOp'.arg
          gid == lastOp'.id
      IN (IsUpsertStep /\ ~lastOp'.threw)
         => LET id == Target(e, gid)
                at == Position(employees, id)
                n == Len(employees)
            IN /\ lastOp'.ret = id
               /\ IF at # 0
                  THEN /\ Len(employees') = n
                       /\ employees'[at].id = id
                       /\ employees'[at].name = e.name
                       /\ \A j \in 1..n : j # at => employees'[j] = employees[j]
                  ELSE /\ Len(employees') = n + 1
                       /\ employees'[n + 1].id = id
                       /\ employees'[n + 1].name = e.name
                       /\ \A j \in 1..n : employees'[j] = employees[j]]_vars

\* C4 witness: the first of two records has just been replaced.
C4_Witness ==
  /\ lastOp.op = "upsert" /\ ~lastOp.threw
  /\ Len(employees) = 2
  /\ employees[1].id = lastOp.id
  /\ lastOp.arg.id = lastOp.id
  /\ Len(recent) = 2 /\ Len(recent[2]) = 2

\* C5: after any sequence of upsert (with or without a supplied id),
\* remove and clearAll, the collection holds at most one record per id.
C5_OneRecordPerId ==
  \A i, j \in 1..Len(employees) :
    i # j => employees[i].id # employees[j].id

\* C5 witness: an upsert without a supplied id went through while the
\* collection already held two records (the generated id was one of theirs).
C5_Witness ==
  /\ lastOp.op = "upsert" /\ ~lastOp.threw
  /\ lastOp.arg.id = Undefined
  /\ Len(employees) = 2
  /\ Len(recent) = 2 /\ Len(recent[2]) = 2

\* C6: remove(id) deletes the record with that id and leaves the other
\* records and their order unchanged; with no such record the collection is
\* unchanged; afterwards byId(id) is null.
C6_RemoveFrame ==
  [][LET id == lastOp'.id
      IN IsRemoveStep
         => LET at == Position(employees, id) IN
              /\ employees' = IF at = 0 THEN employees
                              ELSE SubSeq(employees, 1, at - 1)
                                     \o SubSeq(employees, at + 1, Len(employees))
              /\ byId(employees', id) = null]_vars

\* C6 witness: a remove has just taken one of two records away.
C6_Witness ==
  /\ lastOp.op = "remove"
  /\ Len(employees) = 1
  /\ Len(recent) = 2 /\ Len(recent[2]) = 2

\* C7: clearAll is idempotent: after a call, and after a second call,
\* all() has length 0.
C7_ClearAllIdempotent ==
  lastOp.op = "clearAll" => Len(all(employees)) = 0

\* C7 witness: clearAll has been called a second time in a row.
C7_Witness ==
  /\ lastOp.op = "clearAll" /\ lastOp.streak = 2
  /\ Len(all(employees)) = 0

\* C8: a successful upsert, remove or clearAll notifies every subscribed
\* callback after the commit and before it returns (a callback reading all()
\* sees the new collection); a rejected upsert notifies nobody; a callback
\* is not notified once its unsubscribe handle was called.
C8_Notification ==
  /\ (lastOp.op \in {"upsert", "remove", "clearAll"} /\ ~lastOp.threw)
       => \A c \in listeners : seen[c] = all(employees)
  /\ (lastOp.op = "upsert" /\ lastOp.threw)
       => \A c \in Callbacks : seen[c] = NotCalled
  /\ \A c \in Callbacks \ listeners : seen[c] = NotCalled

\* C8 witness: one callback is subscribed and one is not, and an upsert
\* that changed the collection has just been committed.
C8_Witness ==
  /\ lastOp.op = "upsert" /\ ~lastOp.threw
  /\ listeners = {"c1"}
  /\ seen["c1"] = employees /\ seen["c2"] = NotCalled
  /\ Len(recent) = 2 /\ recent[2] # employees

\* The storage value persist writes for the collection emps.
Snapshot(emps) == [state |-> [employees |-> emps], version |-> VERSION]

Pending == txq \o awaiting

DurableIsCommitted ==
  /\ kvAge + 1 = Len(recent)
  /\ IF kv[NAME] = <<>> THEN recent[kvAge + 1] = <<>>
     ELSE kv[NAME] = <<Snapshot(recent[kvAge + 1])>>

\* C10 as stated: at any moment (a crash may come at any) the durable value
\* is a complete snapshot of a committed collection and misses at most the
\* single most recent mutation, also when mutations are committed back to
\* back before any write completes.
C10_LosesAtMostOne ==
  /\ DurableIsCommitted
  /\ kvAge <= 1

\* C10 amended: at any moment the durable value is a complete snapshot of a
\* committed collection (or nothing, before the first write completes), and
\* it misses exactly the mutations whose writes are still in flight: one
\* when calls are spaced by their writes, several when they are committed
\* back to back.
C10_LosesThePending ==
  /\ DurableIsCommitted
  /\ kvAge = InFlight

\* C10 witness: two mutations are committed and neither is durable yet,
\* while an earlier snapshot is.
C10_Witness ==
  /\ kvAge = 2
  /\ kv[NAME] # <<>>
  /\ recent[1] # recent[2] /\ recent[2] # recent[3]

\* ------------------------------------------------- application start
\* What the earlier session left under NAME: kv holds it until the first
\* write of this session completes, which is after the hydration read.
LeftBehind == IF hydration = "done" THEN got.value ELSE kv[NAME]

HasPersistedEmployees ==
  /\ LeftBehind # <<>>
  /\ LeftBehind[1].version = VERSION
  /\ LeftBehind[1].state.employees # <<>>

Holds(emps, rec) == \E i \in 1..Len(emps) : emps[i] = rec

SeedTestsHydrated == seed.pc # "start" => seed.hydrated

NoSeedingOverPersisted ==
  HasPersistedEmployees => ~seed.fetched /\ seed.upserts = 0

HydrationKeepsCommitted ==
  hydration = "done" =>
    \A i \in 1..Len(seed.committed) : Holds(employees, seed.committed[i])

\* C11: on application start the store is hydrated before its first use:
\* in every interleaving seedFromJSONIfEmpty tests emptiness against the
\* hydrated collection, so with persisted employees it fetches nothing and
\* upserts nothing, and hydration never drops records committed earlier in
\* the session.
C11_HydratedBeforeFirstUse ==
  /\ SeedTestsHydrated
  /\ NoSeedingOverPersisted
  /\ HydrationKeepsCommitted

Unusable(stored) == stored = <<>> \/ stored[1].version # VERSION

\* C12: when nothing is persisted under NAME, or what is persisted carries
\* a version other than VERSION, the collection holds only what this session
\* committed: it is empty until seeding commits, and no persisted record of
\* the other version is ever merged into it.
C12_UnusableStartsEmpty == Unusable(LeftBehind) => employees = seed.committed

C12_Witness ==
  /\ hydration = "done"
  /\ got.value # <<>>
  /\ got.value[1].version # VERSION
  /\ got.value[1].state.employees # <<>>
  /\ seed.pc = "done"
  /\ employees = <<>>

\* ------------------------------------------------------ failing database
IsClearAllStep == lastOp'.op = "clearAll" /\ ClearAll

Notified == \A c \in listeners : seen'[c] = employees'

\* C13: once the database could not be opened or a write has failed, upsert,
\* remove and clearAll still commit in memory, notify the subscribers and
\* return normally (upsert returns the id); the only error an upsert throws
\* is the uniqueness error of a conflicting email.
C13_FailureNotThrown ==
  [][faults # {} =>
       /\ IsUpsertStep =>
            LET e == lastOp'.arg
                id == Target(e, lastOp'.id)
            IN IF Conflict(employees, e, id)
               THEN lastOp'.threw /\ lastOp'.error = UniqueEmailError
               ELSE /\ ~lastOp'.threw
                    /\ lastOp'.ret = id
                    /\ Position(employees', id) # 0
                    /\ Notified
       /\ IsRemoveStep =>
            /\ ~lastOp'.threw
            /\ Position(employees', lastOp'.id) = 0
            /\ Notified
       /\ IsClearAllStep =>
            /\ ~lastOp'.threw
            /\ employees' = <<>>
            /\ Notified]_vars

\* C13 witness: the database could not be opened, the write of an upsert was
\* rejected and the database holds nothing, while the record is in memory,
\* the subscriber has seen it and the call returned its id.
C13_Witness ==
  /\ faults = {"open"}
  /\ hydration = "done"
  /\ InFlight = 0
  /\ kv[NAME] = <<>>
  /\ lastOp.op = "upsert" /\ ~lastOp.threw /\ lastOp.ret = "i1"
  /\ Position(employees, "i1") # 0
  /\ listeners = {"c1"} /\ seen["c1"] = employees

\* --------------------------------------------------- key-value adapter
\* The step completes the oldest queued adapter call.
CompletesCall == txq # <<>> /\ txq' = Tail(txq)

\* C14: a completing getItem(key) yields the value of the most recent
\* completed setItem(key, v) that no completed removeItem(key) followed, and
\* undefined when there is none; a completing call on one key leaves what
\* every other key holds as it was.
C14_RoundTripPerKey ==
  [][CompletesCall =>
       LET r == Head(txq) IN
         /\ r.op = "get" => got' = [key |-> r.key, value |-> acked[r.key]]
         /\ \A k \in KvKeys \ {r.key} : kv'[k] = kv[k]]_vars

\* C14 witness: k1 was set and read back, then removed, while k2 holds the
\* value set under it.
C14_Witness ==
  /\ got = [key |-> "k1", value |-> <<"v1">>]
  /\ kv["k1"] = <<>>
  /\ kv["k2"] = <<"v2">>
  /\ InFlight = 0

\* ---------------------------------------------------------------- seeding
\* C15: when the seed fetch fails (network error) or answers with a response
\* that is not ok, seedFromJSONIfEmpty completes without raising, calls
\* upsert for nothing and commits nothing to the store.
C15_SeedBestEffort ==
  seed.response \in {"network-error", "not-ok"} =>
    /\ seed.pc = "done"
    /\ seed.upserts = 0
    /\ seed.committed = <<>>

\* ------------------------------------------------------------ validation
\* The rules of the data model, stated on the DTO and the calendar.
Label ==
  [firstName |-> "emp.firstName", lastName |-> "emp.lastName",
   employmentDate |-> "emp.employmentDate", birthDate |-> "emp.birthDate",
   phone |-> "emp.phone", email |-> "emp.email",
   department |-> "emp.department", position |-> "emp.position"]

Validated == errs # NotValidated

Types(es) == {es[i].type : i \in 1..Len(es)}

\* undefined, null, or a string of nothing but spaces
Missing(v) == v.t # "string" \/ \A i \in 1..Len(v.s) : v.s[i] = " "

AllowedInName(c) ==
  IsLetter(c) \/ IsMark(c) \/ c \in {" ", "'", "-", "."}

\* 2 to 50 characters, all of them allowed in a name
NameInBounds(s) ==
  /\ Len(s) >= 2 /\ Len(s) <= 50
  /\ \A i \in 1..Len(s) : AllowedInName(s[i])

LeapYear(y) == (y % 4 = 0 /\ y % 100 # 0) \/ y % 400 = 0

LengthOfMonth(y, m) ==
  CASE m \in {4, 6, 9, 11} -> 30
    [] m = 2 -> IF LeapYear(y) THEN 29 ELSE 28
    [] OTHER -> 31

\* The year, month and day a string of the shape YYYY-MM-DD writes.
Written(s) ==
  [y |-> Number(SubSeq(s, 1, 4)), m |-> Number(SubSeq(s, 6, 7)),
   d |-> Number(SubSeq(s, 9, 10))]

HasDateShape(s) ==
  /\ Len(s) = 10
  /\ \A i \in 1..10 : IF i \in {5, 8} THEN s[i] = "-" ELSE IsDigit(s[i])

\* s has the shape YYYY-MM-DD and names a day of the calendar.
RealDate(s) ==
  /\ HasDateShape(s)
  /\ Written(s).m >= 1 /\ Written(s).m <= 12
  /\ Written(s).d >= 1
  /\ Written(s).d <= LengthOfMonth(Written(s).y, Written(s).m)

\* a is the same day as b or an earlier one
NotAfter(a, b) ==
  \/ a.y < b.y
  \/ a.y = b.y /\ a.m < b.m
  \/ a.y = b.y /\ a.m = b.m /\ a.d <= b.d

\* At least k whole years lie between born and hired: the k-th anniversary
\* of born, by month and day, is not after hired.
WholeYearsAtLeast(born, hired, k) ==
  NotAfter([born EXCEPT !.y = @ + k], hired)

ValidPhone(s) ==
  /\ Cardinality({i \in 1..Len(s) : IsDigit(s[i])}) \in 10..16
  /\ \A i \in 1..Len(s) : IsDigit(s[i]) \/ s[i] \in {" ", "(", ")", "+", "-", "."}

\* local@domain.tld without spaces
ValidEmail(s) ==
  /\ Cardinality({i \in 1..Len(s) : s[i] = "@"}) = 1
  /\ \A i \in 1..Len(s) : s[i] # " "
  /\ s[1] # "@"
  /\ \E i \in 1..Len(s) :
       s[i] = "." /\ i + 2 <= Len(s) /\ \E j \in 1..(i - 2) : s[j] = "@"

ValidDTO(d, c) ==
  /\ \A f \in Fields : ~Missing(d[f])
  /\ NameInBounds(d.firstName.s) /\ NameInBounds(d.lastName.s)
  /\ ValidEmail(d.email.s)
  /\ ValidPhone(d.phone.s)
  /\ d.department.s \in DEPARTMENTS /\ d.position.s \in POSITIONS
  /\ RealDate(d.birthDate.s) /\ RealDate(d.employmentDate.s)
  /\ NotAfter(Written(d.birthDate.s), c)
  /\ NotAfter(Written(d.employmentDate.s), c)
  /\ WholeYearsAtLeast(Written(d.birthDate.s), Written(d.employmentDate.s), 15)

ValidGivesNoError == ValidDTO(dto, clock) => errs = <<>>

\* One 'required' error for each missing field and no other error.
MissingGivesRequired ==
  (\E f \in Fields : Missing(dto[f])) =>
    /\ Types(errs) = {"required"}
    /\ \A f \in Fields :
         Cardinality({i \in 1..Len(errs) : errs[i].labelKey = Label[f]})
           = IF Missing(dto[f]) THEN 1 ELSE 0

\* C16: validateEmployee returns an empty list for every valid DTO; when
\* any of the 8 required fields are missing (undefined, null or blank) it
\* returns exactly one 'required' error per missing field and no error of
\* another type, whatever the other fields hold.
C16_ValidOrRequired ==
  Validated => ValidGivesNoError /\ MissingGivesRequired

RequiredHolds == Validated => MissingGivesRequired

Reports(type, field) ==
  \E i \in 1..Len(errs) : errs[i].type = type /\ errs[i].labelKey = Label[field]

\* C17: for firstName and lastName, name_length is reported exactly when the
\* name has fewer than 2 or more than 50 characters or holds a character
\* outside the allowed set; names of exactly 2 and of exactly 50 letters are
\* accepted, names of 1 and of 51 letters are rejected.
C17_NameLength ==
  Validated =>
    \A f \in {"firstName", "lastName"} :
      Reports("name_length", f) <=> ~NameInBounds(dto[f].s)

\* validateEmployee parsed both dates of the DTO.
BothParsed ==
  /\ Validated
  /\ ~Reports("required", "birthDate") /\ ~Reports("required", "employmentDate")
  /\ ~Reports("date_invalid", "birthDate")
  /\ ~Reports("date_invalid", "employmentDate")

\* C18: for every pair of parseable birth and employment dates, age_min is
\* reported exactly when fewer than 15 whole years, counted by calendar month
\* and day, lie between birth and employment: 2010-01-01 with 2024-01-01 is
\* reported, with 2025-01-01 it is not, and the day before the 15th birthday
\* is reported.
C18_AgeMinByCalendar ==
  BothParsed =>
    (Reports("age_min", "employmentDate")
       <=> ~WholeYearsAtLeast(Written(dto.birthDate.s),
                              Written(dto.employmentDate.s), MinYears))

\* The day before the 15th birthday, in the calendar year of that birthday,
\* has been reported.
C18_Witness ==
  /\ BothParsed
  /\ dto.birthDate.s = Iso(2010, 6, 15)
  /\ dto.employmentDate.s = Iso(2025, 6, 14)
  /\ Reports("age_min", "employmentDate")

\* The number of days from 1 January 1970 to the day w of the calendar,
\* counted year by year and month by month.
DaysSinceEpoch(w) ==
  LET RECURSIVE Years(_)
      Years(y) ==
        IF y = 1970 THEN 0
        ELSE IF y > 1970
               THEN Years(y - 1) + (IF LeapYear(y - 1) THEN 366 ELSE 365)
               ELSE Years(y + 1) - (IF LeapYear(y) THEN 366 ELSE 365)
      RECURSIVE Months(_)
      Months(m) ==
        IF m = 1 THEN 0 ELSE Months(m - 1) + LengthOfMonth(w.y, m - 1)
  IN Years(w.y) + Months(w.m) + (w.d - 1)

\* C19: a date string is accepted only if it has the shape YYYY-MM-DD and
\* names a real calendar date; a string that does not (a month outside
\* 01..12, a day the month does not have, 29 February of a common year)
\* gets date_invalid for its field and is never taken for another date:
\* no check that needs the date is made with it, and a parsed date is the
\* day that was written.
C19_OnlyRealDates ==
  Validated =>
    \A f \in {"birthDate", "employmentDate"} :
      /\ (~Missing(dto[f]) /\ ~RealDate(dto[f].s)) =>
           /\ Reports("date_invalid", f)
           /\ ~Reports("date_future", f)
           /\ ~Reports("age_min", "employmentDate")
           /\ ~Reports("employment_after_birth", "employmentDate")
      /\ parseISO(dto[f]).ok =>
           /\ RealDate(dto[f].s)
           /\ parseISO(dto[f]).t = 24 * DaysSinceEpoch(Written(dto[f].s))

\* 30 February of a leap year has been rejected as an employment date.
C19_Witness ==
  /\ Validated
  /\ dto.employmentDate.s = Iso(2020, 2, 30)
  /\ Reports("date_invalid", "employmentDate")

\* ---- the employee list
Mounted == list # <<>>

View == {list[1].shown[i] : i \in 1..Len(list[1].shown)}

\* part occurs in s, the case of the letters aside
Occurs(part, s) ==
  \E i \in 0..(Len(s) - Len(part)) :
    \A j \in 1..Len(part) : toLowerChar(s[i + j]) = toLowerChar(part[j])

MatchesQuery(e, query) ==
  \/ query = <<>>
  \/ \E f \in {"firstName", "lastName", "email", "phone", "department",
               "position"} : Occurs(query, e[f])

\* e satisfies the structured filter k, set to the value v
SatisfiesFilter(e, k, v) ==
  CASE k \in {"firstName", "lastName", "email"} -> Occurs(v, e[k])
    [] k = "phone" -> Occurs(digits(v), digits(e.phone))
    [] k \in {"department", "position"} -> e[k] = v
    [] k = "empFrom" -> NotAfter(Written(v), Written(e.employmentDate))
    [] k = "empTo" -> NotAfter(Written(e.employmentDate), Written(v))
    [] k = "birthFrom" -> NotAfter(Written(v), Written(e.birthDate))
    [] k = "birthTo" -> NotAfter(Written(e.birthDate), Written(v))

InView(e) ==
  /\ MatchesQuery(e, list[1].q)
  /\ \A k \in DOMAIN list[1].filters :
       list[1].filters[k] # <<>> => SatisfiesFilter(e, k, list[1].filters[k])

\* One filter is set back to empty; query and collection stay as they are.
IsLoosenStep ==
  /\ Mounted /\ list' # list
  /\ employees' = employees
  /\ list'[1].q = list[1].q
  /\ \E k \in DOMAIN list[1].filters :
       /\ list[1].filters[k] # <<>>
       /\ list'[1].filters = [list[1].filters EXCEPT ![k] = <<>>]

\* C20: the filtered view holds exactly the records of the live collection
\* that match the query in one of the six searched fields (or the query is
\* empty) and satisfy every non-empty structured filter; date ranges include
\* both bounds and an absent bound does not constrain; setting one filter
\* back to empty removes no record from the view.
C20_FilteredView ==
  /\ [](Mounted =>
          View = {employees[i] : i \in {j \in 1..Len(employees) :
                                          InView(employees[j])}})
  /\ [][IsLoosenStep =>
          \A i \in 1..Len(list[1].shown) :
            \E j \in 1..Len(list'[1].shown) :
              list'[1].shown[j] = list[1].shown[i]]_vars

\* Of two records only one matches the first name, the email, the department
\* and the employment range that are set, its date being the upper bound.
C20_Witness ==
  /\ Mounted
  /\ Len(employees) = 2 /\ Len(list[1].shown) = 1
  /\ list[1].filters.firstName # <<>> /\ list[1].filters.email # <<>>
  /\ list[1].filters.department # <<>>
  /\ list[1].filters.empTo = list[1].shown[1].employmentDate

\* ---- paging
\* The number of pages that total items fill at size items a page, and one
\* page when there is nothing to show.
PagesFor(total, size) ==
  CHOOSE n \in 1..(total + 1) :
    /\ n * size >= total
    /\ n = 1 \/ (n - 1) * size < total

\* n where it lies in lo..hi, else the nearer of the two.
Clamped(n, lo, hi) == IF n < lo THEN lo ELSE IF n > hi THEN hi ELSE n

\* C21: for every item count and page size the total of pages is
\* max(1, ceil(total / size)), 33 items making 4 pages at size 10 and 2 at
\* size 20, and a requested page is clamped into 1..total pages: the page
\* property where the element shows it, the requested page where it emits.
C21_TotalPagesAndClamp ==
  (pager # <<>> /\ pager[1].p.pageSize >= 1) =>
    LET p == pager[1].p
        pages == PagesFor(p.total, p.pageSize)
    IN /\ pager[1].nav.totalPages = pages
       /\ (p.total = 33 /\ p.pageSize = 10) => pager[1].nav.totalPages = 4
       /\ (p.total = 33 /\ p.pageSize = 20) => pager[1].nav.totalPages = 2
       /\ pager[1].nav.cur = Clamped(p.page, 1, pages)
       /\ pager[1].asked # <<>> =>
            \/ pager[1].event = <<[page |-> Clamped(pager[1].asked[1], 1, pages)]>>
            \/ /\ pager[1].event = <<>>
               /\ Clamped(pager[1].asked[1], 1, pages) = p.page

\* Page 999 of 33 items at 20 a page has been asked for and page 2 emitted.
C21_Witness ==
  /\ pager # <<>>
  /\ pager[1].p.total = 33 /\ pager[1].p.pageSize = 20
  /\ pager[1].nav.totalPages = 2
  /\ pager[1].asked = <<999>> /\ pager[1].event = <<[page |-> 2]>>

\* The pages of the filtered list c shows: four cards a page, pageSize rows
\* of the table.
PagesOf(c) ==
  PagesFor(Len(c.shown), IF c.view = "list" THEN 4 ELSE c.pageSize)

IsSearchOrFilterStep ==
  /\ Mounted /\ list' # <<>>
  /\ list'[1].q # list[1].q \/ list'[1].filters # list[1].filters

\* Of the list's state only the page size or only the view mode changes,
\* apart from the page.
IsSizeOrViewStep ==
  /\ Mounted /\ list' # <<>>
  /\ employees' = employees
  /\ list'[1].q = list[1].q /\ list'[1].filters = list[1].filters
  /\ (list'[1].view # list[1].view) # (list'[1].pageSize # list[1].pageSize)

\* C22: a change of the search text or of a filter sets the page to 1; a
\* change of only the page size or only the view mode keeps the page when it
\* is within 1..total pages for the new effective size and else moves it to
\* the nearest bound.
C22_ResetOrClamp ==
  [][/\ IsSearchOrFilterStep => list'[1].page = 1
     /\ IsSizeOrViewStep =>
          list'[1].page = Clamped(list[1].page, 1, PagesOf(list'[1]))]_vars

\* C27: once the list has finished updating, its page lies within 1..total
\* pages of the filtered list, and the page rendered is not empty while the
\* filtered list is not.
C27_PageInRange ==
  Mounted =>
    /\ list[1].page >= 1 /\ list[1].page <= PagesOf(list[1])
    /\ list[1].shown # <<>> => list[1].pageItems # <<>>

\* ---- selection
Selected == {list[1].selected[i] : i \in 1..Len(list[1].selected)}

IdsOf(emps) == {emps[i].id : i \in 1..Len(emps)}

\* The dialog of the bulk delete is answered: confirmed when the selection
\* is emptied by the step, cancelled when it is kept.
IsBulkAnswerStep == Mounted /\ list[1].confirming /\ ~list'[1].confirming

C28_SelectionIsLive == Mounted => Selected \subseteq IdsOf(employees)

\* ---- form
FormShown == form # <<>>

\* A step in which the running submit calls upsert.
IsSaveStep == FormShown /\ form' # form /\ form'[1].upserts = 1

\* C24: a submit calls upsert at most once, only after validation returned
\* an empty list and, in edit mode, only after the dialog resolved true;
\* after failed validation or a dialog resolved false the submit has called
\* no upsert and has not navigated, and the store is touched by no other
\* step of the form.
C24_SubmitFlow ==
  /\ [](FormShown =>
          LET f == form[1] IN
            /\ f.upserts <= 1
            /\ f.upserts = 1 =>
                 /\ f.validated = <<>>
                 /\ f.employeeId # Undefined => f.answer = "yes"
            /\ f.navigated => f.upserts = 1
            /\ (f.validated # <<>> \/ f.answer = "no") =>
                 f.upserts = 0 /\ ~f.navigated)
  /\ [][(FormShown /\ ~IsSaveStep) =>
          /\ lastOp' = lastOp /\ employees' = employees
          /\ form'[1].navigated => form[1].navigated]_vars

\* An edit has been confirmed and saved, and the form has navigated.
C24_Witness ==
  /\ FormShown /\ form[1].employeeId # Undefined
  /\ form[1].answer = "yes" /\ form[1].upserts = 1 /\ form[1].navigated
  /\ lastOp.op = "upsert" /\ ~lastOp.threw

\* C25: when the upsert of a submit throws UNIQUE_EMAIL the submit ends with
\* the uniqueness text of the email as its only error and without
\* navigating, and store and pending writes are as before.
C25_UniqueEmailCaught ==
  [][(IsSaveStep /\ lastOp'.threw) =>
       /\ lastOp'.error.cause.field = "email"
       /\ form'[1].errors = <<Text("errors.uniqueEmail")>>
       /\ form'[1].pc = "idle" /\ ~form'[1].navigated
       /\ employees' = employees
       /\ <<awaiting, txq, kv, seen>>' = <<awaiting, txq, kv, seen>>]_vars

\* An edit took the email of another employee and was refused.
C25_Witness ==
  /\ FormShown /\ form[1].employeeId = "i1" /\ form[1].answer = "yes"
  /\ lastOp.op = "upsert" /\ lastOp.threw
  /\ form[1].errors = <<Text("errors.uniqueEmail")>>
  /\ employees = FormRows

\* ---- search input
\* C26: every burst of inputs whose gaps are shorter than the debounce is
\* answered by exactly one search-change, dispatched one debounce after the
\* last input of the burst with that input's value; a burst has no event
\* before that moment and none is outstanding after it.
C26_Debounce ==
  search # <<>> =>
    LET s == search[1]
        n == Len(s.events)
    IN /\ n <= Len(s.ends) /\ Len(s.ends) <= n + 1
       /\ \A i \in 1..n :
            s.events[i] = [at |-> s.ends[i].at + Debounce,
                           value |-> s.ends[i].value]
       /\ Len(s.ends) = n + 1 => s.now <= s.ends[n + 1].at + Debounce

\* A burst of three inputs has been answered by one event, a second burst
\* by another.
C26_Witness ==
  /\ search # <<>> /\ Len(search[1].events) = 2
  /\ search[1].events[1] = [at |-> 2 * Tick + Debounce, value |-> "ab"]
  /\ search[1].events[2].value = "a"
  /\ search[1].timers = <<>>

\* ---- adoptCss
\* C29: an href that has not been cleared from the cache has been fetched at
\* most once, and no root has adopted more than one sheet for it.
C29_OneFetchOneSheet ==
  css # <<>> =>
    \A h \in Hrefs \ css[1].cleared :
      /\ css[1].fetches[h] <= 1
      /\ \A r \in Roots :
           Cardinality({i \in 1..Len(css[1].adopted[r]) :
                          css[1].adopted[r][i].href = h}) <= 1

\* ---- hr-header
\* C30: a disconnected header has no listener on window, and a connected
\* header whose firstUpdated has ended has one.
C30_ListenerWhileConnected ==
  header # <<>> =>
    /\ ~header[1].connected => ~header[1].listener
    /\ (header[1].connected /\ header[1].pc = "done") => header[1].listener

====
